---- MODULE Spec2Model ----
(***************************************************************************)
(* A model of the quantum-visualizer application: the circuit editor and   *)
(* animation player of App (src/unnamed/part_000), and the simulation      *)
(* kernel of src/src/quantum.js together with the branch enumeration       *)
(* engine (qubitBranches) of App.                                          *)
(*                                                                         *)
(* NUMBERS.  The JavaScript code computes in IEEE doubles.  The model      *)
(* computes in exact arithmetic over the field Q(sqrt 2): a real number is *)
(* a triple <<p, q, d>> standing for (p + q*sqrt(2))/d in lowest terms,    *)
(* and a complex number is a pair <<re, im>> of such reals.  Every gate    *)
(* of the catalog (I, X, Y, Z, H, S, T) has its entries in this field.     *)
(* Angles are integers counting units of pi/8.  A real that leaves the     *)
(* field (the cosine of an odd multiple of pi/8, an irrational square      *)
(* root) is the value NaR; NaR times exact zero is zero, as for any finite *)
(* double, and a comparison that reads NaR stops the model checker, so no  *)
(* result of the model rests on a value the field cannot hold.             *)
(***************************************************************************)
EXTENDS Integers, Sequences, FiniteSets, TLC

VARIABLES
    circuits,          \* App state: circuits[qi][si], a cell or the empty cell
    barriers,          \* App state: sorted list of barrier slot indices
    qubitVisibility,   \* App state: one boolean per wire
    animationFrame,    \* App state: -1 (show all) or the current frame
    isPlaying,         \* App state
    initialStateMode,  \* App state: "zero", "one" or "plus"
    fn,                \* kernel call under test: the function called
    arg,               \* kernel call under test: its arguments
    ret                \* kernel call under test: its result

vars == <<circuits, barriers, qubitVisibility, animationFrame, isPlaying,
          initialStateMode, fn, arg, ret>>

appVars == <<circuits, barriers, qubitVisibility, animationFrame, isPlaying,
             initialStateMode>>

callVars == <<fn, arg, ret>>

----------------------------------------------------------------------------
(* Exact reals (p + q*sqrt 2)/d                                            *)

\* JavaScript evaluates the initialiser of a const declaration, and the
\* arguments of a call, before the statements that use them: Bind(e, Body)
\* is Body of the value of e, with e evaluated first.
Bind(e, Body(_)) == CHOOSE r \in {Body(v) : v \in {e}} : TRUE

\* Array.prototype.map over the positions 1..n, as a sequence.
MapSeq(n, F(_)) == SubSeq([i \in 1..n |-> F(i)], 1, n)

Abs(x) == IF x < 0 THEN -x ELSE x

RECURSIVE Gcd(_, _)
Gcd(a, b) == IF b = 0 THEN a ELSE Gcd(b, a % b)

NaR == <<0, 0, 0>>

IsNaR(a) == a[3] = 0

RMk(p, q, d) ==
    IF d = 0 THEN NaR
    ELSE LET g == Gcd(Gcd(Abs(p), Abs(q)), Abs(d))
             s == IF d < 0 THEN -1 ELSE 1
         IN  <<(s * p) \div g, (s * q) \div g, (s * d) \div g>>

RInt(n) == <<n, 0, 1>>

RZero == RInt(0)

ROne == RInt(1)

RNeg(a) == <<-a[1], -a[2], a[3]>>

RAdd(a, b) == RMk(a[1] * b[3] + b[1] * a[3], a[2] * b[3] + b[2] * a[3], a[3] * b[3])

RSub(a, b) == RAdd(a, RNeg(b))

\* A finite double times exact zero is zero, whatever the double.
RMul(a, b) ==
    IF a = RZero \/ b = RZero THEN RZero
    ELSE RMk(a[1] * b[1] + 2 * a[2] * b[2], a[1] * b[2] + a[2] * b[1], a[3] * b[3])

RInv(a) == RMk(a[3] * a[1], -(a[3] * a[2]), a[1] * a[1] - 2 * a[2] * a[2])

RDiv(a, b) == RMul(a, RInv(b))

\* p > q*sqrt(2) for positive integers p, q, by the continued fraction of sqrt 2.
RECURSIVE GtSqrt2(_, _)
GtSqrt2(p, q) ==
    IF p >= 2 * q THEN TRUE
    ELSE IF p <= q THEN FALSE
    ELSE ~GtSqrt2(2 * q - p, p - q)

\* The sign of a real; reading NaR has no value (CHOOSE over the empty set).
RSign(a) ==
    IF IsNaR(a) THEN CHOOSE s \in {} : TRUE
    ELSE LET p == a[1]
             q == a[2]
         IN  IF p = 0 /\ q = 0 THEN 0
             ELSE IF p >= 0 /\ q >= 0 THEN 1
             ELSE IF p <= 0 /\ q <= 0 THEN -1
             ELSE IF p > 0 THEN (IF GtSqrt2(p, -q) THEN 1 ELSE -1)
             ELSE (IF GtSqrt2(-p, q) THEN -1 ELSE 1)

RLt(a, b) == RSign(RSub(a, b)) < 0

RLe(a, b) == RSign(RSub(a, b)) <= 0

RGt(a, b) == RLt(b, a)

RGe(a, b) == RLe(b, a)

RAbs(a) == IF RSign(a) < 0 THEN RNeg(a) ELSE a

RMin(a, b) == IF RLt(b, a) THEN b ELSE a

RMax(a, b) == IF RGt(b, a) THEN b ELSE a

\* Largest numerator searched by RSqrt.
SqrtSearch == 12

\* Math.sqrt: the non-negative root when the field holds it, else NaR.
RSqrt(a) ==
    IF IsNaR(a) THEN NaR
    ELSE IF a = RZero \/ a = ROne THEN a
    ELSE LET roots == {y \in {RMk(x, z, a[3]) : x \in -SqrtSearch..SqrtSearch,
                                               z \in -SqrtSearch..SqrtSearch} :
                          RMul(y, y) = a /\ RSign(y) >= 0}
         IN  IF roots = {} THEN NaR ELSE CHOOSE y \in roots : TRUE

RHalfSqrt2 == <<0, 1, 2>>

----------------------------------------------------------------------------
(* Angles: integers in units of pi/8.                                      *)

\* Math.PI in angle units.
PiUnits == 8

\* Math.cos and Math.sin of k units; cos(pi/8) is outside the field.
CosU(k) ==
    LET m == k % (2 * PiUnits)
    IN  IF m % 2 = 1 THEN NaR
        ELSE IF m = 0 THEN ROne
        ELSE IF m = 2 \/ m = 14 THEN RHalfSqrt2
        ELSE IF m = 4 \/ m = 12 THEN RZero
        ELSE IF m = 6 \/ m = 10 THEN RNeg(RHalfSqrt2)
        ELSE RNeg(ROne)

SinU(k) == CosU(k - 4)

\* Math.cos(theta / 2) and Math.sin(theta / 2).
CosHalf(theta) == IF theta % 2 = 0 THEN CosU(theta \div 2) ELSE NaR

SinHalf(theta) == IF theta % 2 = 0 THEN SinU(theta \div 2) ELSE NaR

\* quantum.js normalizeAngle (also App's local copy): into [-pi, pi].
RECURSIVE normalizeAngle(_)
normalizeAngle(a) ==
    IF a > PiUnits THEN normalizeAngle(a - 2 * PiUnits)
    ELSE IF a < -PiUnits THEN normalizeAngle(a + 2 * PiUnits)
    ELSE a

\* Math.abs(angle) > 0.01 and < 0.01: the least non-zero angle of the grid
\* is pi/8 > 0.01.
AngleAbsGtTol(a) == a # 0

AngleAbsLtTol(a) == a = 0

----------------------------------------------------------------------------
(* Complex numbers: src/src/quantum.js lines 4-14.                         *)

complex(re, im) == <<re, im>>

CZero == complex(RZero, RZero)

COne == complex(ROne, RZero)

cAdd(a, b) == complex(RAdd(a[1], b[1]), RAdd(a[2], b[2]))

cSub(a, b) == complex(RSub(a[1], b[1]), RSub(a[2], b[2]))

cMul(a, b) == complex(RSub(RMul(a[1], b[1]), RMul(a[2], b[2])),
                      RAdd(RMul(a[1], b[2]), RMul(a[2], b[1])))

cConj(a) == complex(a[1], RNeg(a[2]))

\* cAbs(a) ** 2, the square of the magnitude.
cAbs2(a) == RAdd(RMul(a[1], a[1]), RMul(a[2], a[2]))

cAbs(a) == RSqrt(cAbs2(a))

cFromPolar(r, theta) == complex(RMul(r, CosU(theta)), RMul(r, SinU(theta)))

cScale(a, s) == complex(RMul(a[1], s), RMul(a[2], s))

\* Math.atan2(a.im, a.re) in angle units, in (-pi, pi]; atan2(0, 0) = 0.  The
\* field holds the angle only for the multiples of pi/4.
cPhase(a) ==
    IF a = CZero THEN 0
    ELSE CHOOSE k \in {-6, -4, -2, 0, 2, 4, 6, 8} :
             LET t == cMul(a, cFromPolar(ROne, -k))
             IN  t[2] = RZero /\ RSign(t[1]) > 0

\* Math.acos of a cosine of the grid, in angle units.
ACos(x) == CHOOSE k \in {0, 2, 4, 6, 8} : CosU(k) = x

----------------------------------------------------------------------------
(* Kernel: src/src/quantum.js.  A state is <<alpha, beta>>; a matrix is    *)
(* <<<<m00, m01>>, <<m10, m11>>>>.                                         *)

SQRT2_INV == RHalfSqrt2

\* JavaScript null / undefined for an index, a matrix and a decomposition.
Null == -1

NoMatrix == <<>>

NoDecomposition == <<>>

\* A normalisation that returns its argument.
normalizeSkipped(state) == state

normalize(state) ==
    Bind(RSqrt(RAdd(cAbs2(state[1]), cAbs2(state[2]))), LAMBDA norm :
        IF norm = RZero THEN <<COne, CZero>>
        ELSE <<complex(RDiv(state[1][1], norm), RDiv(state[1][2], norm)),
               complex(RDiv(state[2][1], norm), RDiv(state[2][2], norm))>>)

STATE_ZERO == <<COne, CZero>>

STATE_ONE == <<CZero, COne>>

STATE_PLUS == <<complex(SQRT2_INV, RZero), complex(SQRT2_INV, RZero)>>

getInitialQubitState(mode) ==
    IF mode = "one" THEN STATE_ONE
    ELSE IF mode = "plus" THEN STATE_PLUS
    ELSE STATE_ZERO

Decomp(theta, phi, lambda) == [theta |-> theta, phi |-> phi, lambda |-> lambda]

createU3Matrix(theta, phi, lambda) ==
    << <<complex(CosHalf(theta), RZero),
         cScale(cFromPolar(ROne, -lambda), RNeg(SinHalf(theta)))>>,
       <<cScale(cFromPolar(ROne, phi), SinHalf(theta)),
         cScale(cFromPolar(ROne, phi + lambda), CosHalf(theta))>> >>

GateNames == {"I", "X", "Y", "Z", "H", "S", "T", "U"}

\* GATES[name].defaultMatrix
defaultMatrix(name) ==
    CASE name = "I" -> << <<COne, CZero>>, <<CZero, COne>> >>
      [] name = "X" -> << <<CZero, COne>>, <<COne, CZero>> >>
      [] name = "Y" -> << <<CZero, complex(RZero, RInt(-1))>>,
                          <<complex(RZero, ROne), CZero>> >>
      [] name = "Z" -> << <<COne, CZero>>, <<CZero, complex(RInt(-1), RZero)>> >>
      [] name = "H" -> << <<complex(SQRT2_INV, RZero), complex(SQRT2_INV, RZero)>>,
                          <<complex(SQRT2_INV, RZero), complex(RNeg(SQRT2_INV), RZero)>> >>
      [] name = "S" -> << <<COne, CZero>>, <<CZero, complex(RZero, ROne)>> >>
      [] name = "T" -> << <<COne, CZero>>, <<CZero, cFromPolar(ROne, PiUnits \div 4)>> >>
      [] name = "U" -> << <<COne, CZero>>, <<CZero, COne>> >>
      [] name = "BARRIER" -> << <<COne, CZero>>, <<CZero, COne>> >>

\* GATES[name].defaultDecomposition
defaultDecomposition(name) ==
    CASE name = "I" -> Decomp(0, 0, 0)
      [] name = "X" -> Decomp(PiUnits, 0, PiUnits)
      [] name = "Y" -> Decomp(PiUnits, PiUnits \div 2, PiUnits \div 2)
      [] name = "Z" -> Decomp(0, 0, PiUnits)
      [] name = "H" -> Decomp(PiUnits \div 2, 0, PiUnits)
      [] name = "S" -> Decomp(0, 0, PiUnits \div 2)
      [] name = "T" -> Decomp(0, 0, PiUnits \div 4)
      [] name = "U" -> Decomp(0, 0, 0)
      [] name = "BARRIER" -> Decomp(0, 0, 0)

\* A circuit cell: a gate instance, a control marker or the empty cell (the
\* JavaScript null or hole).  Every cell carries every field; Null stands for
\* an absent one.
Cell(gate, matrix, decomposition, controlIndex, targetIndex) ==
    [gate |-> gate, matrix |-> matrix, decomposition |-> decomposition,
     controlIndex |-> controlIndex, targetIndex |-> targetIndex]

applyMatrix(state, matrix) ==
    IF matrix = NoMatrix THEN state
    ELSE Bind(<<cAdd(cMul(matrix[1][1], state[1]), cMul(matrix[1][2], state[2])),
                cAdd(cMul(matrix[2][1], state[1]), cMul(matrix[2][2], state[2]))>>,
              normalize)

createGateInstance(gateName, decomposition) ==
    LET decomp == IF decomposition # NoDecomposition THEN decomposition
                  ELSE defaultDecomposition(gateName)
        matrix == IF gateName = "U" \/ decomposition # NoDecomposition
                  THEN createU3Matrix(decomp.theta, decomp.phi, decomp.lambda)
                  ELSE defaultMatrix(gateName)
    IN  Cell(gateName, matrix, decomp, Null, Null)

applyGate(state, gateInstance) ==
    IF gateInstance.gate = "BARRIER" THEN state
    ELSE applyMatrix(state, gateInstance.matrix)

getProbabilities(state) == [prob0 |-> cAbs2(state[1]), prob1 |-> cAbs2(state[2])]

\* The default tolerance of the kickback functions, 0.01.
Tolerance == RMk(1, 0, 100)

\* The threshold 0.0001 of extractRotationFromMatrix.
EdgeThreshold == RMk(1, 0, 10000)

\* cAbs(a) > t and cAbs(a) <= t for a threshold t >= 0, compared on the
\* squares so that an irrational magnitude needs no square root.
cAbsGt(a, t) == RGt(cAbs2(a), RMul(t, t))

cAbsLe(a, t) == ~cAbsGt(a, t)

\* den < 1e-12 reads den <= 0: a squared magnitude of the field that is not
\* zero is far above 1e-12 for every amplitude the model builds.
complexDiv(a, b) ==
    LET den == RAdd(RMul(b[1], b[1]), RMul(b[2], b[2]))
    IN  IF RLe(den, RZero) THEN CZero
        ELSE complex(RDiv(RAdd(RMul(a[1], b[1]), RMul(a[2], b[2])), den),
                     RDiv(RSub(RMul(a[2], b[1]), RMul(a[1], b[2])), den))

\* The result of getKickbackPhaseForControlledGate: NoPhase is null, <<p>>
\* the phase p in angle units.
NoPhase == <<>>

Phase(p) == <<p>>

\* state.findIndex(amp => cAbs(amp) > tolerance), 1-based; 0 when none.
findReferenceIdx(state, tolerance) ==
    IF cAbsGt(state[1], tolerance) THEN 1
    ELSE IF cAbsGt(state[2], tolerance) THEN 2
    ELSE 0

\* getKickbackPhaseForControlledGate without the eigenstate test of its loop.
getKickbackPhaseNoEigenTest(targetGate, targetStateBefore) ==
    IF targetGate.gate = "NONE" \/ targetGate.gate = "BARRIER"
       \/ targetGate.gate = "CONTROL" \/ targetGate.matrix = NoMatrix
    THEN NoPhase
    ELSE
    Bind(targetStateBefore, LAMBDA state :
    Bind(applyMatrix(state, targetGate.matrix), LAMBDA evolved :
    Bind(findReferenceIdx(state, Tolerance), LAMBDA referenceIdx :
        IF referenceIdx = 0 THEN NoPhase
        ELSE
        Bind(complexDiv(evolved[referenceIdx], state[referenceIdx]), LAMBDA rawPhase :
            IF cAbsLe(rawPhase, Tolerance) THEN NoPhase
            ELSE
            Bind(cScale(rawPhase, RInv(cAbs(rawPhase))), LAMBDA unitPhase :
                LET phase == normalizeAngle(cPhase(unitPhase))
                IN  IF AngleAbsGtTol(phase) THEN Phase(phase) ELSE Phase(0))))))

\* A test on the gate's name alone.
gateIsPhaseGate(gateInstance) == gateInstance.gate \in {"Z", "S", "T"}

\* gateHasPhaseKickbackPotential, lines 247-267; a null gateInstance is the
\* empty cell.
gateHasPhaseKickbackPotential(gateInstance) ==
    IF gateInstance.gate \in {"NONE", "BARRIER", "CONTROL"} THEN FALSE
    ELSE IF gateInstance.gate \in {"Z", "S", "T"} THEN TRUE
    ELSE IF gateInstance.gate # "U" \/ gateInstance.decomposition = NoDecomposition THEN FALSE
    ELSE IF AngleAbsGtTol(gateInstance.decomposition.theta) THEN FALSE
    ELSE AngleAbsGtTol(normalizeAngle(gateInstance.decomposition.phi
                                      + gateInstance.decomposition.lambda))

getKickbackPhaseForControlledGate(targetGate, targetStateBefore) ==
    IF targetGate.gate = "NONE" \/ targetGate.gate = "BARRIER"
       \/ targetGate.gate = "CONTROL" \/ targetGate.matrix = NoMatrix
    THEN NoPhase
    ELSE
    Bind(targetStateBefore, LAMBDA state :
    Bind(applyMatrix(state, targetGate.matrix), LAMBDA evolved :
    Bind(findReferenceIdx(state, Tolerance), LAMBDA referenceIdx :
        IF referenceIdx = 0 THEN NoPhase
        ELSE
        Bind(complexDiv(evolved[referenceIdx], state[referenceIdx]), LAMBDA rawPhase :
            IF cAbsLe(rawPhase, Tolerance) THEN NoPhase
            ELSE
            Bind(cScale(rawPhase, RInv(cAbs(rawPhase))), LAMBDA unitPhase :
                LET far(i) == cAbsGt(cSub(evolved[i], cMul(unitPhase, state[i])),
                                     RMul(Tolerance, RInt(2)))
                IN  IF far(1) \/ far(2) THEN NoPhase
                    ELSE LET phase == normalizeAngle(cPhase(unitPhase))
                         IN  IF AngleAbsGtTol(phase) THEN Phase(phase) ELSE Phase(0))))))

extractRotationFromMatrix(matrix) ==
    IF matrix = NoMatrix THEN Decomp(0, 0, 0)
    ELSE
    LET a == matrix[1][1]
        b == matrix[1][2]
        c == matrix[2][1]
        d == matrix[2][2]
        aMag == cAbs(a)
        cMag == cAbs(c)
    IN  IF RLt(aMag, EdgeThreshold)
        THEN Decomp(PiUnits, cPhase(c), -cPhase(b))
        ELSE IF RLt(cMag, EdgeThreshold)
        THEN LET phiPlusLambda == cPhase(d) - cPhase(a)
             IN  Decomp(0, phiPlusLambda \div 2, phiPlusLambda \div 2)
        ELSE Decomp(2 * ACos(RMin(ROne, aMag)), cPhase(c), -cPhase(b))

\* The Bloch coordinates of a state.  The code goes through the angles
\* theta = 2 acos(sqrt(prob0)) and phi = phase(beta) - phase(alpha); for a
\* unit state sin(theta) cos(phi), sin(theta) sin(phi) and cos(theta) are
\* 2 Re(conj(alpha) beta), 2 Im(conj(alpha) beta) and 2 prob0 - 1.
stateToBlochCoords(state) ==
    LET prob0 == RMax(RZero, RMin(ROne, cAbs2(state[1])))
        ab == cMul(cConj(state[1]), state[2])
    IN  [x |-> RMul(RInt(2), ab[1]), y |-> RMul(RInt(2), ab[2]),
         z |-> RSub(RMul(RInt(2), prob0), ROne)]

----------------------------------------------------------------------------
(* The circuit editor: the handlers of App, src/unnamed/part_000.          *)
(* circuits[qi][si] is the cell of wire qi (from 0) at slot si (from 0).   *)
(* A JavaScript row is a sparse array of any length; the rows of a model   *)
(* circuit all have the same slots 0..w, and a handler that would move a   *)
(* gate past slot w is not taken.  Spec edits rows of slots 0..MaxSlot.    *)

MaxQubits == 3

MaxSlot == 1

MaxBarriers == 1

\* SpecWide edits rows of slots 0..MaxWideSlot on up to MaxWideQubits wires,
\* with up to MaxWideBarriers barriers.
MaxWideSlot == 2

MaxWideQubits == 2

MaxWideBarriers == 2

\* The slots of the rows of circuit c, and the last of them.
Slots(c) == DOMAIN c[0]

LastSlot(c) == Cardinality(Slots(c)) - 1

EmptyCell == Cell("NONE", NoMatrix, NoDecomposition, Null, Null)

ControlCell(targetIndex) == Cell("CONTROL", NoMatrix, NoDecomposition, Null, targetIndex)

EmptyRow(slots) == [s \in slots |-> EmptyCell]

numQubits(c) == Cardinality(DOMAIN c)

Qubits(c) == DOMAIN c

IsGate(cell) == cell # EmptyCell

hasControlIndex(cell) == cell.controlIndex # Null

\* CircuitBuilder's maxSlot: the largest occupied slot, 0 for an empty circuit.
maxSlot(c) ==
    LET used == {s \in Slots(c) : \E q \in Qubits(c) : IsGate(c[q][s])}
    IN  IF used = {} THEN 0 ELSE CHOOSE s \in used : \A t \in used : t <= s

\* The slots CircuitBuilder offers to a drop: 0..maxSlot+1, and the slot right
\* of an occupied one.
DropSlots(c) == {s \in Slots(c) : s <= maxSlot(c) + 1}

\* next[qi][si] = cell; a cell past the last slot is not kept (the bound
\* guard of the action rejects such an edit).
SetCell(c, qi, si, cell) == IF si \in Slots(c) THEN [c EXCEPT ![qi][si] = cell] ELSE c

shiftAllColumnsRight(circuitRows, fromSlot) ==
    [q \in DOMAIN circuitRows |->
        [s \in Slots(circuitRows) |-> IF s < fromSlot THEN circuitRows[q][s]
                         ELSE IF s = fromSlot THEN EmptyCell
                         ELSE circuitRows[q][s - 1]]]

\* The last modelled column is free, so a shift loses no gate.
CanShift(c) == \A q \in Qubits(c) : ~IsGate(c[q][LastSlot(c)])

\* setBarriers(b => b.map(bi => bi >= si ? bi + 1 : bi))
shiftBarriers(b, si) == [i \in DOMAIN b |-> IF b[i] >= si THEN b[i] + 1 ELSE b[i]]

\* What a setCircuits callback computes: the next circuit and the slot from
\* which it shifted the barriers, or Null.
Edit(c, shift) == [circuits |-> c, shift |-> shift]

\* Place cells after shifting at slot si when occupied holds.
ShiftIf(occupied, c, si) == IF occupied THEN shiftAllColumnsRight(c, si) ELSE c

ShiftSlot(occupied, si) == IF occupied THEN si ELSE Null

handleInsertGateEdit(prev, qi, si, gate) ==
    LET isOccupied == IsGate(prev[qi][si])
    IN  Edit(SetCell(ShiftIf(isOccupied, prev, si), qi, si, gate), ShiftSlot(isOccupied, si))

handleRemoveGateEdit(prev, qi, si) ==
    LET gate == prev[qi][si]
        targetQi == gate.targetIndex
        ctrlQi == gate.controlIndex
        next ==
            IF gate.gate = "CONTROL"
            THEN IF targetQi \in Qubits(prev) /\ IsGate(prev[targetQi][si])
                    /\ prev[targetQi][si].controlIndex = qi
                 THEN SetCell(prev, targetQi, si, [prev[targetQi][si] EXCEPT !.controlIndex = Null])
                 ELSE prev
            ELSE IF hasControlIndex(gate) /\ ctrlQi \in Qubits(prev)
                    /\ prev[ctrlQi][si].gate = "CONTROL" /\ prev[ctrlQi][si].targetIndex = qi
                 THEN SetCell(prev, ctrlQi, si, EmptyCell)
                 ELSE prev
    IN  IF ~IsGate(gate) THEN Edit(prev, Null)
        ELSE Edit(SetCell(next, qi, si, EmptyCell), Null)

handleUpdateGateEdit(prev, qi, si, newGate) ==
    LET oldGate == prev[qi][si]
        oldCtrlQi == oldGate.controlIndex
        \* remove the old control dot when the control changes or goes
        next1 == IF IsGate(oldGate) /\ hasControlIndex(oldGate)
                    /\ newGate.controlIndex # oldCtrlQi
                    /\ oldCtrlQi \in Qubits(prev) /\ prev[oldCtrlQi][si].gate = "CONTROL"
                 THEN SetCell(prev, oldCtrlQi, si, EmptyCell)
                 ELSE prev
        ctrlQi == newGate.controlIndex
        existingAtCtrl == next1[ctrlQi][si]
        isOurControlNode == existingAtCtrl.gate = "CONTROL" /\ existingAtCtrl.targetIndex = qi
    IN  IF hasControlIndex(newGate)
        THEN IF IsGate(existingAtCtrl) /\ ~isOurControlNode
             THEN Edit(SetCell(SetCell(shiftAllColumnsRight(SetCell(next1, qi, si, EmptyCell), si),
                                       qi, si, newGate),
                               ctrlQi, si, ControlCell(qi)), si)
             ELSE Edit(SetCell(SetCell(next1, qi, si, newGate), ctrlQi, si, ControlCell(qi)), Null)
        ELSE Edit(SetCell(next1, qi, si, newGate), Null)

handleGateMiddleClickEdit(prev, qi, si) ==
    LET gate == prev[qi][si]
        targetQi == gate.targetIndex
        next == IF targetQi \in Qubits(prev) /\ IsGate(prev[targetQi][si])
                THEN SetCell(prev, targetQi, si, [prev[targetQi][si] EXCEPT !.controlIndex = Null])
                ELSE prev
    IN  Edit(SetCell(next, qi, si, EmptyCell), Null)

\* handleMoveGate, the control dot dragged: lines 1628-1699.
moveControlNode(prev, fromQi, fromSi, toQi, toSi) ==
    LET gate == prev[fromQi][fromSi]
        targetQi == gate.targetIndex
        targetGate == prev[targetQi][fromSi]
        shifted == shiftAllColumnsRight(prev, fromSi)
        \* both removed from their old positions
        lifted == SetCell(SetCell(prev, fromQi, fromSi, EmptyCell), targetQi, fromSi, EmptyCell)
        pairOccupied == IsGate(lifted[targetQi][toSi]) \/ IsGate(lifted[toQi][toSi])
    IN  IF targetQi \notin Qubits(prev) \/ ~IsGate(targetGate) THEN Edit(prev, Null)
        ELSE IF toSi = fromSi /\ toQi # fromQi
        THEN IF toQi = targetQi
             THEN Edit(SetCell(SetCell(prev, fromQi, fromSi, EmptyCell),
                               targetQi, fromSi, [targetGate EXCEPT !.controlIndex = Null]), Null)
             ELSE IF IsGate(prev[toQi][fromSi])
             THEN Edit(SetCell(SetCell(shifted, toQi, fromSi + 1, ControlCell(targetQi)),
                               targetQi, fromSi + 1,
                               [shifted[targetQi][fromSi + 1] EXCEPT !.controlIndex = toQi]),
                       fromSi)
             ELSE Edit(SetCell(SetCell(SetCell(prev, fromQi, fromSi, EmptyCell),
                                       toQi, fromSi, ControlCell(targetQi)),
                               targetQi, fromSi, [targetGate EXCEPT !.controlIndex = toQi]), Null)
        ELSE IF toQi = targetQi
        THEN Edit(SetCell(ShiftIf(IsGate(lifted[targetQi][toSi]), lifted, toSi),
                          targetQi, toSi, [targetGate EXCEPT !.controlIndex = Null]),
                  ShiftSlot(IsGate(lifted[targetQi][toSi]), toSi))
        ELSE Edit(SetCell(SetCell(ShiftIf(pairOccupied, lifted, toSi),
                                  targetQi, toSi, [targetGate EXCEPT !.controlIndex = toQi]),
                          toQi, toSi, ControlCell(targetQi)),
                  ShiftSlot(pairOccupied, toSi))

\* handleMoveGate, a regular gate dragged: lines 1701-1742.
moveRegularGate(prev, fromQi, fromSi, toQi, toSi) ==
    LET gate0 == prev[fromQi][fromSi]
        hasControl == hasControlIndex(gate0)
        ctrlQi == gate0.controlIndex
        ctrlGate0 == IF hasControl /\ ctrlQi \in Qubits(prev) THEN prev[ctrlQi][fromSi]
                     ELSE EmptyCell
        lifted1 == SetCell(prev, fromQi, fromSi, EmptyCell)
        lifted == IF hasControl /\ IsGate(ctrlGate0)
                  THEN SetCell(lifted1, ctrlQi, fromSi, EmptyCell) ELSE lifted1
        toControl == hasControl /\ toQi = ctrlQi
        gate == IF toControl THEN [gate0 EXCEPT !.controlIndex = Null] ELSE gate0
        ctrlGate == IF toControl THEN EmptyCell ELSE ctrlGate0
        pairOccupied == IsGate(lifted[toQi][toSi]) \/ IsGate(lifted[ctrlQi][toSi])
    IN  IF ~hasControl \/ ~IsGate(ctrlGate)
        THEN Edit(SetCell(ShiftIf(IsGate(lifted[toQi][toSi]), lifted, toSi), toQi, toSi, gate),
                  ShiftSlot(IsGate(lifted[toQi][toSi]), toSi))
        ELSE Edit(SetCell(SetCell(ShiftIf(pairOccupied, lifted, toSi), toQi, toSi, gate),
                          ctrlQi, toSi, [ctrlGate EXCEPT !.targetIndex = toQi]),
                  ShiftSlot(pairOccupied, toSi))

handleMoveGateEdit(prev, fromQi, fromSi, toQi, toSi) ==
    LET gate == prev[fromQi][fromSi]
    IN  IF ~IsGate(gate) THEN Edit(prev, Null)
        ELSE IF gate.gate = "CONTROL" THEN moveControlNode(prev, fromQi, fromSi, toQi, toSi)
        ELSE moveRegularGate(prev, fromQi, fromSi, toQi, toSi)

\* A clean-up that drops the references to the removed wire and leaves the
\* other indices as they were.
cleanCellKeepIndex(gate, qi) ==
    IF ~IsGate(gate) THEN gate
    ELSE IF gate.gate = "CONTROL"
    THEN IF gate.targetIndex = qi THEN EmptyCell ELSE gate
    ELSE IF ~hasControlIndex(gate) THEN gate
    ELSE IF gate.controlIndex = qi THEN [gate EXCEPT !.controlIndex = Null]
    ELSE gate

\* handleRemoveQubit's clean-up of one cell of a remaining wire.
cleanCell(gate, qi) ==
    IF ~IsGate(gate) THEN gate
    ELSE IF gate.gate = "CONTROL"
    THEN IF gate.targetIndex = qi THEN EmptyCell
         ELSE [gate EXCEPT !.targetIndex = IF @ > qi THEN @ - 1 ELSE @]
    ELSE IF ~hasControlIndex(gate) THEN gate
    ELSE IF gate.controlIndex = qi THEN [gate EXCEPT !.controlIndex = Null]
    ELSE [gate EXCEPT !.controlIndex = IF @ > qi THEN @ - 1 ELSE @]

\* prev.filter((_, i) => i !== qi)
withoutQubit(f, qi) ==
    [i \in 0..(Cardinality(DOMAIN f) - 2) |-> IF i < qi THEN f[i] ELSE f[i + 1]]

handleRemoveQubitEdit(prev, qi) ==
    LET next == withoutQubit(prev, qi)
    IN  [q \in DOMAIN next |-> [s \in Slots(prev) |-> cleanCell(next[q][s], qi)]]

InitApp ==
    /\ circuits = [q \in {0} |-> EmptyRow(0..MaxSlot)]
    /\ barriers = <<>>
    /\ qubitVisibility = [q \in {0} |-> TRUE]
    /\ animationFrame = -1
    /\ isPlaying = FALSE
    /\ initialStateMode = "zero"

\* The cells whose control pairing is broken: a control marker without its
\* target gate, or a controlled gate without its control marker, at the same
\* slot.
UnpairedCells(c) ==
    {cell \in Qubits(c) \X Slots(c) :
        LET q == cell[1]
            s == cell[2]
        IN  \/ /\ c[q][s].gate = "CONTROL"
               /\ ~ /\ c[q][s].targetIndex \in Qubits(c)
                    /\ c[c[q][s].targetIndex][s].gate \notin {"NONE", "CONTROL"}
                    /\ c[c[q][s].targetIndex][s].controlIndex = q
            \/ /\ c[q][s].gate \notin {"NONE", "CONTROL"}
               /\ hasControlIndex(c[q][s])
               /\ ~ /\ c[q][s].controlIndex \in Qubits(c)
                    /\ c[c[q][s].controlIndex][s].gate = "CONTROL"
                    /\ c[c[q][s].controlIndex][s].targetIndex = q}

ControlsPaired(c) == UnpairedCells(c) = {}

\* The model follows the application up to the first circuit in which a
\* control marker and its target are no longer paired: such a circuit is a
\* state of the model, and the model takes no step from it.
Explored == ControlsPaired(circuits)

\* The gates the palette offers in Spec.
PaletteGates == {"X"}

\* Bound guards: an edit that shifts needs a free last column, and keeps the
\* barriers within the last slot + 2.
WithinBounds(edit) ==
    edit.shift # Null =>
        /\ CanShift(circuits)
        /\ \A i \in DOMAIN barriers : barriers[i] >= edit.shift => barriers[i] < LastSlot(circuits) + 2

\* The barriers after an edit: shifted when the edit shifted the columns.
barriersAfter(edit) ==
    IF edit.shift # Null THEN shiftBarriers(barriers, edit.shift) ELSE barriers

ApplyEdit(edit) ==
    /\ WithinBounds(edit)
    /\ circuits' = edit.circuits
    /\ barriers' = barriersAfter(edit)

ResetAnimation ==
    /\ animationFrame' = -1
    /\ isPlaying' = FALSE

barrierCount == Len(barriers)

totalFrames == barrierCount + 2

\* The frame shown: AnimationPlayer's currentFrame, qubitBranches' frame.
currentFrame == IF animationFrame < 0 THEN totalFrames - 1 ELSE animationFrame

\* [...prev, si] left unsorted.
appendBarrier(b, si) == Append(b, si)

\* [...prev, si].sort((a, b) => a - b)
RECURSIVE sortedInsert(_, _)
sortedInsert(b, si) ==
    IF b = <<>> THEN <<si>>
    ELSE IF si <= Head(b) THEN <<si>> \o b
    ELSE <<Head(b)>> \o sortedInsert(Tail(b), si)

\* handleInsertGate(qi, si, gate): a palette gate dropped on a cell.
InsertGate(qi, si, name) ==
    /\ Explored
    /\ ApplyEdit(handleInsertGateEdit(circuits, qi, si, createGateInstance(name, NoDecomposition)))
    /\ ResetAnimation
    /\ UNCHANGED <<qubitVisibility, initialStateMode, callVars>>

handleInsertGate ==
    \E qi \in Qubits(circuits), si \in DropSlots(circuits), name \in PaletteGates :
        InsertGate(qi, si, name)

\* The Remove button of GateSettings on the selected cell.
RemoveGate(qi, si) ==
    /\ Explored
    /\ ~isPlaying
    /\ IsGate(circuits[qi][si])
    /\ ApplyEdit(handleRemoveGateEdit(circuits, qi, si))
    /\ ResetAnimation
    /\ UNCHANGED <<qubitVisibility, initialStateMode>>

handleRemoveGate ==
    \E qi \in Qubits(circuits), si \in Slots(circuits) :
        RemoveGate(qi, si) /\ UNCHANGED callVars

\* A removal of a barrier that leaves the frame and the player alone.
handleRemoveBarrierKeepFrame ==
    \E slotIdx \in {barriers[i] : i \in DOMAIN barriers} :
        /\ Explored
        /\ barriers' = SelectSeq(barriers, LAMBDA b : b # slotIdx)
        /\ UNCHANGED <<circuits, qubitVisibility, animationFrame, isPlaying,
                       initialStateMode, callVars>>

handleRemoveBarrier ==
    \E slotIdx \in {barriers[i] : i \in DOMAIN barriers} :
        /\ Explored
        /\ barriers' = SelectSeq(barriers, LAMBDA b : b # slotIdx)
        /\ ResetAnimation
        /\ UNCHANGED <<circuits, qubitVisibility, initialStateMode, callVars>>

\* handleUpdateGate(qi, si, newGate) from GateSettings on the selected gate:
\* the control checkbox cleared, or a control wire chosen.
\* GateSettings shows the control section for the selected cell.
CanUpdate(qi, si) ==
    /\ Explored
    /\ ~isPlaying
    /\ IsGate(circuits[qi][si]) /\ circuits[qi][si].gate # "CONTROL"

UpdateGate(qi, si, ctrl) ==
    /\ CanUpdate(qi, si)
    /\ ApplyEdit(handleUpdateGateEdit(circuits, qi, si,
                                      [circuits[qi][si] EXCEPT !.controlIndex = ctrl]))
    /\ UNCHANGED <<qubitVisibility, animationFrame, isPlaying, initialStateMode, callVars>>

handleUpdateGate ==
    \E qi \in Qubits(circuits), si \in Slots(circuits) :
        \E ctrl \in {Null} \cup (Qubits(circuits) \ {qi}) :
            UpdateGate(qi, si, ctrl)

handleGateMiddleClick ==
    \E qi \in Qubits(circuits), si \in Slots(circuits) :
        /\ Explored
        /\ ~isPlaying
        /\ IsGate(circuits[qi][si])
        /\ IF circuits[qi][si].gate = "CONTROL"
           THEN /\ ApplyEdit(handleGateMiddleClickEdit(circuits, qi, si))
                /\ UNCHANGED <<animationFrame, isPlaying>>
           ELSE /\ ApplyEdit(handleRemoveGateEdit(circuits, qi, si))
                /\ ResetAnimation
        /\ UNCHANGED <<qubitVisibility, initialStateMode, callVars>>

\* The barriers followed: MaxBarriers on the rows of Spec, MaxWideBarriers on
\* the longer rows of SpecWide.
BarrierBound == IF LastSlot(circuits) <= MaxSlot THEN MaxBarriers ELSE MaxWideBarriers

handleAddBarrier ==
    \E si \in 1..(maxSlot(circuits) + 2) :
        /\ Explored
        /\ Len(barriers) < BarrierBound \/ \E i \in DOMAIN barriers : barriers[i] = si
        /\ barriers' = IF \E i \in DOMAIN barriers : barriers[i] = si THEN barriers
                       ELSE sortedInsert(barriers, si)
        /\ ResetAnimation
        /\ UNCHANGED <<circuits, qubitVisibility, initialStateMode, callVars>>

\* handleMoveGate(fromQi, fromSi, toQi, toSi): a drag of an existing gate or
\* control dot, dropped on a cell or on an insert zone left or right of an
\* occupied cell.
CanMove(fromQi, fromSi, toQi, toSi) ==
    /\ Explored
    /\ ~isPlaying
    /\ IsGate(circuits[fromQi][fromSi])
    /\ \/ toQi # fromQi \/ toSi # fromSi
       \/ toSi > 0 /\ IsGate(circuits[toQi][toSi - 1])

MoveGate(fromQi, fromSi, toQi, toSi) ==
    /\ CanMove(fromQi, fromSi, toQi, toSi)
    /\ ApplyEdit(handleMoveGateEdit(circuits, fromQi, fromSi, toQi, toSi))
    /\ ResetAnimation
    /\ UNCHANGED <<qubitVisibility, initialStateMode, callVars>>

handleMoveGate ==
    \E fromQi \in Qubits(circuits), fromSi \in Slots(circuits),
       toQi \in Qubits(circuits), toSi \in DropSlots(circuits) :
        MoveGate(fromQi, fromSi, toQi, toSi)

\* The wires followed on rows of the width of the circuit: MaxQubits on the
\* rows of Spec, MaxWideQubits on the longer rows of SpecWide.
QubitBound == IF LastSlot(circuits) <= MaxSlot THEN MaxQubits ELSE MaxWideQubits

handleAddQubit ==
    /\ Explored
    /\ numQubits(circuits) < QubitBound
    /\ circuits' = [q \in 0..numQubits(circuits) |->
                        IF q \in Qubits(circuits) THEN circuits[q]
                        ELSE EmptyRow(Slots(circuits))]
    /\ qubitVisibility' = [q \in 0..numQubits(circuits) |->
                        IF q \in Qubits(circuits) THEN qubitVisibility[q] ELSE TRUE]
    /\ ResetAnimation
    /\ UNCHANGED <<barriers, initialStateMode, callVars>>

\* A removal that does not return early on the last wire.
handleRemoveQubitUnguarded ==
    \E qi \in Qubits(circuits) :
        /\ Explored
        /\ circuits' = handleRemoveQubitEdit(circuits, qi)
        /\ qubitVisibility' = withoutQubit(qubitVisibility, qi)
        /\ ResetAnimation
        /\ UNCHANGED <<barriers, initialStateMode, callVars>>

handleRemoveQubit ==
    \E qi \in Qubits(circuits) :
        /\ Explored
        /\ numQubits(circuits) > 1
        /\ circuits' = handleRemoveQubitEdit(circuits, qi)
        /\ qubitVisibility' = withoutQubit(qubitVisibility, qi)
        /\ ResetAnimation
        /\ UNCHANGED <<barriers, initialStateMode, callVars>>

handleCycleInitialState ==
    /\ Explored
    /\ initialStateMode' = IF initialStateMode = "zero" THEN "one"
                           ELSE IF initialStateMode = "one" THEN "plus"
                           ELSE "zero"
    /\ ResetAnimation
    /\ UNCHANGED <<circuits, barriers, qubitVisibility, callVars>>

\* AnimationPlayer: the play button.
handlePlay ==
    /\ Explored
    /\ IF ~isPlaying THEN animationFrame' = 0 /\ isPlaying' = TRUE
       ELSE isPlaying' = FALSE /\ UNCHANGED animationFrame
    /\ UNCHANGED <<circuits, barriers, qubitVisibility, initialStateMode, callVars>>

\* A playback effect whose timer stops the player one frame early.
playbackEffectStopsEarly ==
    /\ Explored
    /\ isPlaying
    /\ IF currentFrame = 0 THEN animationFrame' = 1 /\ UNCHANGED isPlaying
       ELSE IF currentFrame < totalFrames - 2
       THEN animationFrame' = currentFrame + 1 /\ UNCHANGED isPlaying
       ELSE isPlaying' = FALSE /\ UNCHANGED animationFrame
    /\ UNCHANGED <<circuits, barriers, qubitVisibility, initialStateMode, callVars>>

\* AnimationPlayer: the playback effect, its animation frame or its timer.
playbackEffect ==
    /\ Explored
    /\ isPlaying
    /\ IF currentFrame = 0 THEN animationFrame' = 1 /\ UNCHANGED isPlaying
       ELSE IF currentFrame < totalFrames - 1
       THEN animationFrame' = currentFrame + 1 /\ UNCHANGED isPlaying
       ELSE isPlaying' = FALSE /\ UNCHANGED animationFrame
    /\ UNCHANGED <<circuits, barriers, qubitVisibility, initialStateMode, callVars>>

\* AnimationPlayer: the Previous and Next buttons.
stepPrevious ==
    /\ Explored
    /\ ~isPlaying /\ currentFrame > 0
    /\ animationFrame' = currentFrame - 1
    /\ UNCHANGED <<circuits, barriers, qubitVisibility, isPlaying, initialStateMode, callVars>>

stepNext ==
    /\ Explored
    /\ ~isPlaying /\ currentFrame < totalFrames - 1
    /\ animationFrame' = currentFrame + 1
    /\ UNCHANGED <<circuits, barriers, qubitVisibility, isPlaying, initialStateMode, callVars>>

Init ==
    /\ InitApp
    /\ fn = "none"
    /\ arg = <<>>
    /\ ret = <<>>

Next ==
    \/ handleInsertGate
    \/ handleRemoveGate
    \/ handleRemoveBarrier
    \/ handleUpdateGate
    \/ handleGateMiddleClick
    \/ handleAddBarrier
    \/ handleMoveGate
    \/ handleAddQubit
    \/ handleRemoveQubit
    \/ handleCycleInitialState
    \/ handlePlay
    \/ playbackEffect
    \/ stepPrevious
    \/ stepNext

Spec == Init /\ [][Next]_vars

\* The editor on longer rows and fewer wires: the same handlers from the same
\* empty one-wire circuit, with room for a column shift at slot 1.
InitWide ==
    /\ circuits = [q \in {0} |-> EmptyRow(0..MaxWideSlot)]
    /\ barriers = <<>>
    /\ qubitVisibility = [q \in {0} |-> TRUE]
    /\ animationFrame = -1
    /\ isPlaying = FALSE
    /\ initialStateMode = "zero"
    /\ fn = "none"
    /\ arg = <<>>
    /\ ret = <<>>

SpecWide == InitWide /\ [][Next]_vars

\* The editor with a user who leaves the application alone while it plays:
\* every handler while paused, and only the playback effect while playing.
\* The effect's animation frame and its timer fire when nothing cancels them.
userInput == ~isPlaying /\ Next

NextPlayback ==
    \/ userInput
    \/ playbackEffect

SpecPlayback == Init /\ [][NextPlayback]_vars /\ WF_vars(playbackEffect)

----------------------------------------------------------------------------
(* The branch engine: getOrderedGates, buildColumnStateCache and           *)
(* qubitBranches of App, src/unnamed/part_000 lines 1135-1377.  They are   *)
(* memoised values of the App state, here state functions.                 *)

\* A gate of an ordered gate list: { ...gate, slot }.
OrderedGate(cell, slot) ==
    [gate |-> cell.gate, matrix |-> cell.matrix, decomposition |-> cell.decomposition,
     controlIndex |-> cell.controlIndex, targetIndex |-> cell.targetIndex,
     slot |-> slot, isDerivedKickback |-> FALSE]

\* row.map((gate, slot) => ...).filter(e => e.gate), cut at the barrier of
\* the frame; barriers is kept sorted, so sortedBarriers[frame - 1] is
\* barriers[frame].
\* A cut that keeps the cell at the barrier's slot.
getOrderedGatesThroughBarrier(qubitIndex, frame) ==
    LET row == circuits[qubitIndex]
        entries == SelectSeq([i \in 1..Cardinality(DOMAIN row) |->
                                 OrderedGate(row[i - 1], i - 1)],
                             LAMBDA g : g.gate # "NONE")
    IN  IF frame = 0 THEN <<>>
        ELSE IF frame > barrierCount THEN entries
        ELSE SelectSeq(entries, LAMBDA g : g.slot <= barriers[frame])

getOrderedGates(qubitIndex, frame) ==
    LET row == circuits[qubitIndex]
        entries == SelectSeq([i \in 1..Cardinality(DOMAIN row) |->
                                 OrderedGate(row[i - 1], i - 1)],
                             LAMBDA g : g.gate # "NONE")
    IN  IF frame = 0 THEN <<>>
        ELSE IF frame > barrierCount THEN entries
        ELSE SelectSeq(entries, LAMBDA g : g.slot < barriers[frame])

getInitialState == getInitialQubitState(initialStateMode)

\* statesAtSlot[0], ..., statesAtSlot[s] of buildColumnStateCache: the state
\* before the gate at each slot, every gate of the list applied
\* unconditionally.
\* A cache that passes over the gates that have a control.
RECURSIVE statesAtSlotSkipControlled(_, _)
statesAtSlotSkipControlled(sortedGates, s) ==
    IF s = 0 THEN <<getInitialState>>
    ELSE LET before == statesAtSlotSkipControlled(sortedGates, s - 1)
             state == before[s]
             found == SelectSeq(sortedGates, LAMBDA g : g.slot = s - 1)
         IN  Append(before,
                    IF found # <<>> /\ Head(found).gate # "BARRIER"
                       /\ Head(found).gate # "CONTROL"
                       /\ Head(found).controlIndex = Null
                    THEN applyGate(state, Head(found))
                    ELSE state)

RECURSIVE statesAtSlot(_, _)
statesAtSlot(sortedGates, s) ==
    IF s = 0 THEN <<getInitialState>>
    ELSE LET before == statesAtSlot(sortedGates, s - 1)
             state == before[s]
             found == SelectSeq(sortedGates, LAMBDA g : g.slot = s - 1)
         IN  Append(before,
                    IF found # <<>> /\ Head(found).gate # "BARRIER"
                       /\ Head(found).gate # "CONTROL"
                    THEN applyGate(state, Head(found))
                    ELSE state)

buildColumnStateCache(frame) ==
    [qi \in Qubits(circuits) |->
        LET states == statesAtSlot(getOrderedGates(qi, frame), maxSlot(circuits) + 1)
        IN  [s \in 0..(maxSlot(circuits) + 1) |-> states[s + 1]]]

\* A lookup that ignores the cache.
initialStateAtSlot(stateCache, ctrlQubit, slot) == getInitialState

\* stateCache[qubit]?.[slot] || getInitialState()
getControlStateAtSlot(stateCache, ctrlQubit, slot) ==
    IF ctrlQubit \in DOMAIN stateCache /\ slot \in DOMAIN stateCache[ctrlQubit]
    THEN stateCache[ctrlQubit][slot]
    ELSE getInitialState

\* A synthetic gate carrying the opposite phase.
KickbackGateOpposite(phase, slot) ==
    [gate |-> "U", matrix |-> createU3Matrix(0, 0, -phase),
     decomposition |-> Decomp(0, 0, -phase),
     controlIndex |-> Null, targetIndex |-> Null,
     slot |-> slot, isDerivedKickback |-> TRUE]

\* The synthetic phase gate pushed by getKickbackGatesForControl.
KickbackGate(phase, slot) ==
    [gate |-> "U", matrix |-> createU3Matrix(0, 0, phase),
     decomposition |-> Decomp(0, 0, phase),
     controlIndex |-> Null, targetIndex |-> Null,
     slot |-> slot, isDerivedKickback |-> TRUE]

\* The gates visited by circuits.forEach((_, targetQubit) =>
\* getOrderedGates(targetQubit, frame).forEach(gate => ...)), in the order
\* visited, each with its wire.
visitedGates(frame) ==
    LET width == Cardinality(Slots(circuits))
        visit(i) ==
            LET targetQubit == (i - 1) \div width
                targetGates == getOrderedGates(targetQubit, frame)
                k == ((i - 1) % width) + 1
            IN  IF k <= Len(targetGates)
                THEN <<[targetQubit |-> targetQubit, gate |-> targetGates[k]]>>
                ELSE <<>>
        visits == SelectSeq([i \in 1..(numQubits(circuits) * width) |-> visit(i)],
                            LAMBDA v : v # <<>>)
    IN  MapSeq(Len(visits), LAMBDA i : visits[i][1])

getKickbackGatesForControl(controlQubit, frame, stateCache) ==
    LET controlled == SelectSeq(visitedGates(frame),
                                LAMBDA v : /\ v.gate.gate # "CONTROL"
                                           /\ v.gate.controlIndex = controlQubit)
        phaseOf(i) ==
            LET gate == controlled[i].gate
                targetStateBefore == getControlStateAtSlot(stateCache,
                                         controlled[i].targetQubit, gate.slot)
            IN  [slot |-> gate.slot,
                 phase |-> getKickbackPhaseForControlledGate(gate, targetStateBefore)]
        kicking == SelectSeq(MapSeq(Len(controlled), phaseOf),
                             LAMBDA k : k.phase # NoPhase /\ AngleAbsGtTol(k.phase[1]))
    IN  MapSeq(Len(kicking), LAMBDA i : KickbackGate(kicking[i].phase[1], kicking[i].slot))

\* Array.prototype.sort((a, b) => a.slot - b.slot), which is stable: the
\* gate of rank r comes after r - 1 gates in the order (slot, position).
sortBySlot(gateList) ==
    LET rank(j) == Cardinality({i \in DOMAIN gateList :
                                   \/ gateList[i].slot < gateList[j].slot
                                   \/ gateList[i].slot = gateList[j].slot /\ i < j}) + 1
    IN  MapSeq(Len(gateList), LAMBDA r : gateList[CHOOSE j \in DOMAIN gateList : rank(j) = r])

\* A gate list that leaves the synthesized gates out.
rowGatesOnly(qi, frame, stateCache) == sortBySlot(getOrderedGates(qi, frame))

\* The effective gate list of wire qi: gates of qubitBranches, line 1232.
effectiveGates(qi, frame, stateCache) ==
    sortBySlot(getOrderedGates(qi, frame) \o getKickbackGatesForControl(qi, frame, stateCache))

\* g.controlIndex !== undefined && g.controlIndex !== null && g.gate !== 'CONTROL'
isControlledGate(g) == g.controlIndex # Null /\ g.gate # "CONTROL"

RECURSIVE buildRotations(_)
buildRotations(gateList) ==
    IF gateList = <<>> THEN <<>>
    ELSE LET gate == Head(gateList)
             rest == buildRotations(Tail(gateList))
             decomp == gate.decomposition
         IN  IF gate.gate = "BARRIER" \/ gate.gate = "CONTROL" THEN rest
             ELSE IF decomp # NoDecomposition
                     /\ (AngleAbsGtTol(decomp.theta) \/ AngleAbsGtTol(decomp.phi)
                         \/ AngleAbsGtTol(decomp.lambda))
             THEN <<[theta |-> decomp.theta, phi |-> decomp.phi, lambda |-> decomp.lambda,
                     isCompound |-> TRUE]>> \o rest
             ELSE rest

\* The successive values of state in the loop of applyGates.
RECURSIVE statesAlong(_, _)
statesAlong(gateList, state) ==
    IF gateList = <<>> THEN <<state>>
    ELSE LET before == statesAlong(SubSeq(gateList, 1, Len(gateList) - 1), state)
             gate == gateList[Len(gateList)]
         IN  Append(before,
                    IF gate.gate = "BARRIER" \/ gate.gate = "CONTROL"
                    THEN before[Len(before)]
                    ELSE applyGate(before[Len(before)], gate))

applyGates(gateList, state) == statesAlong(gateList, state)[Len(gateList) + 1]

\* A branch { state, coords, probability, rotations }.
Branch(state, probability, rotations) ==
    [state |-> state, coords |-> stateToBlochCoords(state),
     probability |-> probability, rotations |-> rotations]

\* [...new Set(controlledGates.map(g => g.controlIndex))]: first occurrences.
RECURSIVE uniqueControls(_)
uniqueControls(controlledGates) ==
    IF controlledGates = <<>> THEN <<>>
    ELSE LET rest == uniqueControls(SubSeq(controlledGates, 1, Len(controlledGates) - 1))
             c == controlledGates[Len(controlledGates)].controlIndex
         IN  IF \E i \in DOMAIN rest : rest[i] = c THEN rest ELSE Append(rest, c)

\* The probability of |1> of each control, read at the slot of the first
\* gate it controls.
controlProbs(controls, controlledGates, stateCache) ==
    MapSeq(Len(controls), LAMBDA i :
        LET ctrlGate == Head(SelectSeq(controlledGates, LAMBDA g : g.controlIndex = controls[i]))
            ctrlState == getControlStateAtSlot(stateCache, controls[i], ctrlGate.slot)
        IN  getProbabilities(ctrlState).prob1)

\* (combo >> i) & 1 for the control of index i, counted from 1 here.
isActive(combo, i) == (combo \div (2 ^ (i - 1))) % 2 = 1

\* The factor of one control: a factor that does not complement.
controlFactorNoComplement(active, prob) == IF active THEN prob ELSE ROne

\* isActive ? controlProbs[i] : (1 - controlProbs[i])
controlFactor(active, prob) == IF active THEN prob ELSE RSub(ROne, prob)

\* The inner loop of the enumeration over the first n controls.
RECURSIVE comboProbability(_, _, _)
comboProbability(combo, probs, n) ==
    IF n = 0 THEN ROne
    ELSE RMul(comboProbability(combo, probs, n - 1), controlFactor(isActive(combo, n), probs[n]))

\* controlActive[g.controlIndex]
controlActive(combo, controls, controlIndex) ==
    isActive(combo, CHOOSE i \in DOMAIN controls : controls[i] = controlIndex)

\* A filter that keeps every gate, asserted or not.
allGates(gateList, combo, controls) ==
    SelectSeq(gateList, LAMBDA g : g.gate # "CONTROL")

activeGates(gateList, combo, controls) ==
    SelectSeq(gateList, LAMBDA g : /\ g.gate # "CONTROL"
                                   /\ \/ g.controlIndex = Null
                                      \/ controlActive(combo, controls, g.controlIndex))

\* The pruning threshold 0.01 and the branch cap 10.
ProbThreshold == RMk(1, 0, 100)

BranchCap == 10

\* for (combo = 0; combo < numCombinations && branches.length < 10; combo++)
\* with if (probability < 0.01) continue: the loop pushes a branch for each
\* of the first BranchCap combinations, in increasing order, whose
\* probability is not below the threshold.
keptCombos(controls, probs) ==
    LET passing == {c \in 0..(2 ^ Len(controls) - 1) :
                       ~RLt(comboProbability(c, probs, Len(controls)), ProbThreshold)}
    IN  {c \in passing : Cardinality({d \in passing : d < c}) < BranchCap}

\* The branch pushed for a combination: lines 1298-1313.
comboBranch(combo, gateList, controls, probs) ==
    Bind(activeGates(gateList, combo, controls), LAMBDA active :
        Branch(applyGates(active, getInitialState),
               comboProbability(combo, probs, Len(controls)),
               buildRotations(active)))

enumerateBranches(gateList, controls, probs) ==
    Bind(keptCombos(controls, probs), LAMBDA kept :
        MapSeq(Cardinality(kept), LAMBDA i :
            comboBranch(CHOOSE c \in kept : Cardinality({d \in kept : d < c}) = i - 1,
                        gateList, controls, probs)))

\* The tolerance 0.01 of coordsEqual.
MergeTol == RMk(1, 0, 100)

coordsEqual(c1, c2) ==
    /\ RLt(RAbs(RSub(c1.x, c2.x)), MergeTol)
    /\ RLt(RAbs(RSub(c1.y, c2.y)), MergeTol)
    /\ RLt(RAbs(RSub(c1.z, c2.z)), MergeTol)

RECURSIVE sumAngle(_, _)
sumAngle(rotations, key) ==
    IF rotations = <<>> THEN 0 ELSE rotations[1][key] + sumAngle(Tail(rotations), key)

getTotalPhases(rotations) ==
    [theta |-> normalizeAngle(sumAngle(rotations, "theta")),
     lambda |-> normalizeAngle(sumAngle(rotations, "lambda")),
     phi |-> normalizeAngle(sumAngle(rotations, "phi"))]

phasesEqual(rots1, rots2) ==
    LET p1 == getTotalPhases(rots1)
        p2 == getTotalPhases(rots2)
    IN  /\ AngleAbsLtTol(p1.theta - p2.theta)
        /\ AngleAbsLtTol(p1.lambda - p2.lambda)
        /\ AngleAbsLtTol(p1.phi - p2.phi)

\* One pass of the merge loop: add to the first equal branch, or push.
mergeBranch(mergedBranches, branch) ==
    LET same == {i \in DOMAIN mergedBranches :
                    /\ coordsEqual(mergedBranches[i].coords, branch.coords)
                    /\ phasesEqual(mergedBranches[i].rotations, branch.rotations)}
    IN  IF same = {} THEN Append(mergedBranches, branch)
        ELSE LET existing == CHOOSE i \in same : \A j \in same : i <= j
             IN  [mergedBranches EXCEPT ![existing].probability = RAdd(@, branch.probability)]

RECURSIVE mergeBranches(_)
mergeBranches(branches) ==
    IF branches = <<>> THEN <<>>
    ELSE mergeBranch(mergeBranches(SubSeq(branches, 1, Len(branches) - 1)), branches[Len(branches)])

\* mergedBranches.sort((a, b) => b.probability - a.probability): stable.
RECURSIVE insertByProbability(_, _)
insertByProbability(sorted, b) ==
    IF sorted = <<>> THEN <<b>>
    ELSE IF RGt(b.probability, Head(sorted).probability) THEN <<b>> \o sorted
    ELSE <<Head(sorted)>> \o insertByProbability(Tail(sorted), b)

RECURSIVE sortByProbability(_)
sortByProbability(branches) ==
    IF branches = <<>> THEN <<>>
    ELSE insertByProbability(sortByProbability(SubSeq(branches, 1, Len(branches) - 1)),
                             branches[Len(branches)])

\* if (mergedBranches.length > 10) mergedBranches.length = 10
truncateBranches(branches) ==
    IF Len(branches) > BranchCap THEN SubSeq(branches, 1, BranchCap) ELSE branches

\* The returned list without the fallback of lines 1369-1374.
branchesWithoutFallback(mergedBranches) == mergedBranches

\* mergedBranches.length > 0 ? mergedBranches : [the initial-state branch]
branchesOrFallback(mergedBranches) ==
    IF Len(mergedBranches) > 0 THEN mergedBranches
    ELSE <<Branch(getInitialState, ROne, <<>>)>>

\* The branches of wire qi: the body of circuits.map in qubitBranches.
branchesOfWire(qi, frame, stateCache) ==
    Bind(effectiveGates(qi, frame, stateCache), LAMBDA gates :
        LET controlledGates == SelectSeq(gates, isControlledGate)
            controls == uniqueControls(controlledGates)
        IN  IF controlledGates = <<>>
            THEN <<Branch(applyGates(gates, getInitialState), ROne, buildRotations(gates))>>
            ELSE Bind(controlProbs(controls, controlledGates, stateCache), LAMBDA probs :
                 Bind(enumerateBranches(gates, controls, probs), LAMBDA branches :
                     branchesOrFallback(truncateBranches(sortByProbability(
                         mergeBranches(branches)))))))

qubitBranches ==
    LET frame == currentFrame
        stateCache == buildColumnStateCache(frame)
    IN  [qi \in Qubits(circuits) |-> branchesOfWire(qi, frame, stateCache)]

\* b.reduce((a, c) => c.probability > a.probability ? c : a): the first
\* branch that no branch exceeds.
representativeBranch(branches) ==
    LET best == {i \in DOMAIN branches :
                    \A j \in DOMAIN branches :
                        ~RGt(branches[j].probability, branches[i].probability)}
    IN  branches[CHOOSE i \in best : \A j \in best : i <= j]

\* qubitStates, line 1379; the state of wire q is qubitStates[q + 1].
qubitStates ==
    Bind(qubitBranches, LAMBDA branches :
        MapSeq(numQubits(circuits), LAMBDA i : representativeBranch(branches[i - 1]).state))

\* (i >> (numQubits - 1 - q)) & 1, for the wire q counted from 0.
basisBit(i, q, n) == (i \div (2 ^ (n - 1 - q))) % 2

\* A factor that takes the other probability.
bitProbabilitySwapped(bit, qubitProbs) == IF bit = 0 THEN qubitProbs.prob1 ELSE qubitProbs.prob0

\* bit === 0 ? qubitProbs.prob0 : qubitProbs.prob1
bitProbability(bit, qubitProbs) == IF bit = 0 THEN qubitProbs.prob0 ELSE qubitProbs.prob1

\* The value of prob after the first q passes of the inner loop.
RECURSIVE basisProbability(_, _, _)
basisProbability(i, probs, q) ==
    IF q = 0 THEN ROne
    ELSE RMul(basisProbability(i, probs, q - 1),
              bitProbability(basisBit(i, q - 1, Len(probs)), probs[q]))

\* The threshold 0.001 under which an entry is left out on request.
ZeroThreshold == RMk(1, 0, 1000)

\* results.sort((a, b) => b.probability - a.probability), which is stable:
\* the entries of the largest probability in their order, then those of the
\* next one, and so on.
RECURSIVE entriesOfRank(_, _, _)
entriesOfRank(results, values, r) ==
    IF r = 0 THEN <<>>
    ELSE entriesOfRank(results, values, r - 1)
         \o SelectSeq(results, LAMBDA e : e.probability = values[r])

sortResults(results) ==
    Bind({results[i].probability : i \in DOMAIN results}, LAMBDA values :
        Bind(MapSeq(Cardinality(values), LAMBDA r :
                 CHOOSE v \in values : Cardinality({w \in values : RGt(w, v)}) = r - 1),
             LAMBDA ordered : entriesOfRank(results, ordered, Len(ordered))))

\* The label of an entry is the sequence of its bits, wire 0 first.
getMultiQubitProbabilities(states, includeZero) ==
    Bind(MapSeq(Len(states), LAMBDA q : getProbabilities(states[q])), LAMBDA probs :
        LET n == Len(states)
            entry(k) ==
                [state |-> MapSeq(n, LAMBDA q : basisBit(k - 1, q - 1, n)),
                 probability |-> basisProbability(k - 1, probs, n)]
        IN  sortResults(SelectSeq(MapSeq(2 ^ n, entry),
                                  LAMBDA e : includeZero \/ RGt(e.probability, ZeroThreshold))))

\* probabilities and allProbabilities, lines 1380-1381.
probabilities == getMultiQubitProbabilities(qubitStates, FALSE)

allProbabilities == getMultiQubitProbabilities(qubitStates, TRUE)

\* A detection that takes every eigenstate for a kickback.
detectEigenstate(targetGate, targetQubit, slot, stateCache) ==
    getKickbackPhaseForControlledGate(targetGate,
        getControlStateAtSlot(stateCache, targetQubit, slot)) # NoPhase

\* detectPhaseKickback, lines 1384-1388.
detectPhaseKickback(targetGate, targetQubit, slot, stateCache) ==
    Bind(getKickbackPhaseForControlledGate(targetGate,
             getControlStateAtSlot(stateCache, targetQubit, slot)),
         LAMBDA phase : phase # NoPhase /\ AngleAbsGtTol(phase[1]))

\* minSlot of activeControlSignals for a frame >= 1.
signalMinSlot(frame) ==
    IF frame <= barrierCount THEN (IF frame > 1 THEN barriers[frame - 1] ELSE 0)
    ELSE IF barrierCount > 0 THEN barriers[barrierCount] ELSE 0

\* An upper end of the frame's range that takes in the barrier's own slot.
atOrBelowSignalMaxSlot(slot, frame) ==
    frame <= barrierCount => slot <= barriers[frame]

\* slot < maxSlot, maxSlot being the frame's barrier or Infinity.
belowSignalMaxSlot(slot, frame) ==
    frame <= barrierCount => slot < barriers[frame]

\* activeControlSignals, lines 1391-1421: the events in the order of
\* circuits.forEach((row, qIdx) => row.forEach((gate, slot) => ...)).
signalsOfFrame(frame) ==
    LET width == Cardinality(Slots(circuits))
        stateCache == buildColumnStateCache(frame)
        signal(i) ==
            LET qIdx == (i - 1) \div width
                slot == (i - 1) % width
                gate == circuits[qIdx][slot]
            IN  IF /\ IsGate(gate) /\ hasControlIndex(gate) /\ gate.gate # "CONTROL"
                   /\ slot >= signalMinSlot(frame) /\ belowSignalMaxSlot(slot, frame)
                THEN <<[from |-> gate.controlIndex, to |-> qIdx,
                        hasKickback |-> detectPhaseKickback(OrderedGate(gate, slot),
                                            qIdx, slot, stateCache)]>>
                ELSE <<>>
        signals == SelectSeq([i \in 1..(numQubits(circuits) * width) |-> signal(i)],
                             LAMBDA v : v # <<>>)
    IN  MapSeq(Len(signals), LAMBDA i : signals[i][1])

activeControlSignals ==
    IF ~isPlaying \/ animationFrame <= 0 THEN <<>>
    ELSE signalsOfFrame(animationFrame)

----------------------------------------------------------------------------
(* SpecEngine: the engine watched on circuits the editor has built.  The   *)
(* initial state is the App state right after the last edit of one of the  *)
(* seed circuits below (animation reset, no barrier, initial state |0>);   *)
(* the steps are the player, the initial-state cycle, the barriers, the    *)
(* drag of a control dot along its column and the removal of a controlled  *)
(* gate.                                                                   *)

\* The controlled gates of the fan-in seed, and the widest circuit on which
\* the drag of a control dot is followed.
FanInControls == 7

MaxDragQubits == 4

\* A palette gate with its control set by GateSettings.
Controlled(gateInstance, ctrl) == [gateInstance EXCEPT !.controlIndex = ctrl]

FanInGate(s) == IF s % 3 = 0 THEN "Z" ELSE IF s % 3 = 1 THEN "S" ELSE "T"

\* Wire 0 carries FanInControls phase gates, one per slot, the gate at slot s
\* controlled by wire s + 1.
SeedFanIn ==
    [q \in 0..FanInControls |->
        [s \in 0..(FanInControls - 1) |->
            IF q = 0 THEN Controlled(createGateInstance(FanInGate(s), NoDecomposition), s + 1)
            ELSE IF q = s + 1 THEN ControlCell(0)
            ELSE EmptyCell]]

\* Wire 0 carries Z, S, T and U(0, pi/2, 0) controlled by wires 1 to 4; wire
\* 4 is prepared by T, H, X before its control dot.
SeedBiased ==
    [q \in 0..4 |->
        [s \in 0..3 |->
            IF q = 0
            THEN Controlled(CASE s = 0 -> createGateInstance("Z", NoDecomposition)
                              [] s = 1 -> createGateInstance("S", NoDecomposition)
                              [] s = 2 -> createGateInstance("T", NoDecomposition)
                              [] s = 3 -> createGateInstance("U", Decomp(0, PiUnits \div 2, 0)),
                            s + 1)
            ELSE IF q = s + 1 THEN ControlCell(0)
            ELSE IF q = 4
            THEN CASE s = 0 -> createGateInstance("T", NoDecomposition)
                   [] s = 1 -> createGateInstance("H", NoDecomposition)
                   [] s = 2 -> createGateInstance("X", NoDecomposition)
            ELSE EmptyCell]]

\* Two controlled Z gates side by side in slot 0: wire 0 controls wire 1,
\* wire 3 controls wire 2; slot 1 is free.
SeedCrossed ==
    [q \in 0..3 |->
        [s \in 0..1 |->
            IF s = 1 THEN EmptyCell
            ELSE CASE q = 0 -> ControlCell(1)
                   [] q = 1 -> Controlled(createGateInstance("Z", NoDecomposition), 0)
                   [] q = 2 -> Controlled(createGateInstance("Z", NoDecomposition), 3)
                   [] q = 3 -> ControlCell(2)]]

\* Wires 0 and 2 carry H and then a control dot, wires 1 and 3 carry X and
\* then the controlled gate: Z on wire 1 controlled by wire 0, S on wire 3
\* controlled by wire 2.
SeedKick ==
    [q \in 0..3 |->
        [s \in 0..1 |->
            CASE q = 0 -> IF s = 0 THEN createGateInstance("H", NoDecomposition)
                          ELSE ControlCell(1)
              [] q = 1 -> IF s = 0 THEN createGateInstance("X", NoDecomposition)
                          ELSE Controlled(createGateInstance("Z", NoDecomposition), 0)
              [] q = 2 -> IF s = 0 THEN createGateInstance("H", NoDecomposition)
                          ELSE ControlCell(3)
              [] q = 3 -> IF s = 0 THEN createGateInstance("X", NoDecomposition)
                          ELSE Controlled(createGateInstance("S", NoDecomposition), 2)]]

\* Wire 0 carries Z controlled by wire 1 and U(0, 0, -pi), set in
\* GateSettings, controlled by wire 2; wire 3 carries two I gates controlled
\* by wires 1 and 2; wire 4 is empty.
SeedMerge ==
    [q \in 0..4 |->
        [s \in 0..3 |->
            CASE q = 0 /\ s = 0 -> Controlled(createGateInstance("Z", NoDecomposition), 1)
              [] q = 0 /\ s = 1 -> Controlled(createGateInstance("U", Decomp(0, 0, -PiUnits)), 2)
              [] q = 3 /\ s = 2 -> Controlled(createGateInstance("I", NoDecomposition), 1)
              [] q = 3 /\ s = 3 -> Controlled(createGateInstance("I", NoDecomposition), 2)
              [] q = 1 /\ s = 0 -> ControlCell(0)
              [] q = 2 /\ s = 1 -> ControlCell(0)
              [] q = 1 /\ s = 2 -> ControlCell(3)
              [] q = 2 /\ s = 3 -> ControlCell(3)
              [] OTHER -> EmptyCell]]

SeedCircuits == {SeedFanIn, SeedBiased, SeedCrossed, SeedKick, SeedMerge}

InitEngine ==
    /\ circuits \in SeedCircuits
    /\ barriers = <<>>
    /\ qubitVisibility = [q \in Qubits(circuits) |-> TRUE]
    /\ animationFrame = -1
    /\ isPlaying = FALSE
    /\ initialStateMode = "zero"
    /\ fn = "none"
    /\ arg = <<>>
    /\ ret = <<>>

\* handleMoveGate for a control dot dropped on another wire of its column.
dragControlDot ==
    \E fromQi \in Qubits(circuits), fromSi \in Slots(circuits), toQi \in Qubits(circuits) :
        /\ numQubits(circuits) <= MaxDragQubits
        /\ circuits[fromQi][fromSi].gate = "CONTROL"
        /\ toQi # fromQi
        /\ MoveGate(fromQi, fromSi, toQi, fromSi)

\* handleRemoveGate for a gate that has a control, all frames being shown.
\* The step keeps what the
\* render before it showed: the circuit, the gate removed, the cached state
\* of its wire before it, the frame, and the memoised qubitBranches.
removeControlledGate ==
    \E qi \in Qubits(circuits), si \in Slots(circuits) :
        /\ numQubits(circuits) <= MaxDragQubits
        /\ animationFrame = -1
        /\ hasControlIndex(circuits[qi][si])
        /\ RemoveGate(qi, si)
        /\ fn' = "handleRemoveGate"
        /\ arg' = [qi |-> qi, si |-> si, circuits |-> circuits, gate |-> circuits[qi][si],
                   targetStateBefore |-> buildColumnStateCache(currentFrame)[qi][si],
                   animationFrame |-> animationFrame,
                   initialStateMode |-> initialStateMode]
        /\ ret' = qubitBranches

NextEngine ==
    \/ handleCycleInitialState
    \/ handleAddBarrier
    \/ handleRemoveBarrier
    \/ handlePlay
    \/ playbackEffect
    \/ stepPrevious
    \/ stepNext
    \/ dragControlDot
    \/ removeControlledGate

SpecEngine == InitEngine /\ [][NextEngine]_vars

----------------------------------------------------------------------------
(* Calls of the kernel's pure functions.  SpecMath draws the arguments of  *)
(* one call in its initial state and performs the call.                    *)

\* theta ranges over the multiples of pi/2 up to MaxThetaStep of them, phi
\* and lambda over the multiples of pi/4 up to MaxAngleStep of them.
MaxThetaStep == 2

MaxAngleStep == 4

ThetaValues == {4 * k : k \in -MaxThetaStep..MaxThetaStep}

AngleValues == {2 * k : k \in -MaxAngleStep..MaxAngleStep}

\* The states |->, |i> and |-i>, next to the kernel's own three.
STATE_MINUS == <<complex(SQRT2_INV, RZero), complex(RNeg(SQRT2_INV), RZero)>>

STATE_I == <<complex(SQRT2_INV, RZero), complex(RZero, SQRT2_INV)>>

STATE_MINUS_I == <<complex(SQRT2_INV, RZero), complex(RZero, RNeg(SQRT2_INV))>>

TargetStates == {STATE_ZERO, STATE_ONE, STATE_PLUS, STATE_MINUS, STATE_I, STATE_MINUS_I}

\* The gate instances handed to the kickback function: the catalog gates, the
\* phase gates U(0, 0, lambda), a barrier, a control marker, the empty cell
\* and a gate without matrix.
KickbackGates ==
    {createGateInstance(n, NoDecomposition) : n \in GateNames \cup {"BARRIER"}}
    \cup {createGateInstance("U", Decomp(0, 0, l)) : l \in AngleValues}
    \cup {ControlCell(0), EmptyCell, Cell("X", NoMatrix, defaultDecomposition("X"), Null, Null)}

\* The gate instances handed to gateHasPhaseKickbackPotential: the catalog
\* gates, U for every angle of the grid, a barrier, a control marker, null,
\* and a U without decomposition.
PotentialGates ==
    {createGateInstance(n, NoDecomposition) : n \in GateNames \cup {"BARRIER"}}
    \cup {createGateInstance("U", Decomp(t, p, l)) :
             t \in ThetaValues, p \in AngleValues, l \in AngleValues}
    \cup {ControlCell(0), EmptyCell, Cell("U", defaultMatrix("U"), NoDecomposition, Null, Null)}

CallArg(call, decomposition, gate, state) ==
    [call |-> call, decomposition |-> decomposition, gate |-> gate, state |-> state,
     gates |-> <<>>]

\* The states handed to applyMatrix: the unit states above, the zero vector
\* and vectors of norm 2, sqrt 2 and 5.
ApplyStates ==
    TargetStates
    \cup {<<CZero, CZero>>,
          <<complex(RInt(2), RZero), CZero>>,
          <<COne, COne>>,
          <<complex(RInt(3), RZero), complex(RZero, RInt(4))>>}

\* The matrices handed to applyMatrix: those of the catalog gates, the zero
\* matrix, the projector on |0>, the all-ones matrix and twice the identity.
ApplyMatrices ==
    {defaultMatrix(n) : n \in GateNames}
    \cup {<< <<CZero, CZero>>, <<CZero, CZero>> >>,
          << <<COne, CZero>>, <<CZero, CZero>> >>,
          << <<COne, COne>>, <<COne, COne>> >>,
          << <<complex(RInt(2), RZero), CZero>>, <<CZero, complex(RInt(2), RZero)>> >>}

\* The longest gate sequence folded by a call of applyGates.
MaxFold == 2

GateSequences ==
    UNION {[1..n -> {createGateInstance(g, NoDecomposition) :
                        g \in GateNames \cup {"BARRIER"}} \cup {ControlCell(0)}] :
           n \in 0..MaxFold}

MathArgs ==
    {CallArg("createU3Matrix", Decomp(t, p, l), EmptyCell, STATE_ZERO) :
        t \in ThetaValues, p \in AngleValues, l \in AngleValues}
    \cup {CallArg("createGateInstance", NoDecomposition,
                  Cell(n, NoMatrix, NoDecomposition, Null, Null), STATE_ZERO) : n \in GateNames}
    \cup {CallArg("extractRotationFromMatrix", NoDecomposition,
                  createGateInstance(n, defaultDecomposition(n)), STATE_ZERO) : n \in GateNames}
    \cup {CallArg("getKickbackPhaseForControlledGate", NoDecomposition, g, st) :
        g \in KickbackGates, st \in TargetStates}
    \cup {CallArg("gateHasPhaseKickbackPotential", NoDecomposition, g, STATE_ZERO) :
        g \in PotentialGates}
    \cup {CallArg("applyMatrix", NoDecomposition, Cell("U", m, NoDecomposition, Null, Null), st) :
        m \in ApplyMatrices \cup {NoMatrix}, st \in ApplyStates}
    \cup {[CallArg("applyGates", NoDecomposition, EmptyCell, getInitialQubitState(mode))
               EXCEPT !.gates = gs] :
        gs \in GateSequences, mode \in {"zero", "one", "plus"}}

InitMath ==
    /\ InitApp
    /\ fn = "none"
    /\ arg \in MathArgs
    /\ ret = <<>>

CallCreateU3Matrix ==
    /\ fn = "none" /\ arg.call = "createU3Matrix"
    /\ fn' = arg.call
    /\ ret' = createU3Matrix(arg.decomposition.theta, arg.decomposition.phi,
                             arg.decomposition.lambda)
    /\ UNCHANGED <<arg, appVars>>

CallCreateGateInstance ==
    /\ fn = "none" /\ arg.call = "createGateInstance"
    /\ fn' = arg.call
    /\ ret' = createGateInstance(arg.gate.gate, arg.decomposition)
    /\ UNCHANGED <<arg, appVars>>

CallExtractRotationFromMatrix ==
    /\ fn = "none" /\ arg.call = "extractRotationFromMatrix"
    /\ fn' = arg.call
    /\ ret' = extractRotationFromMatrix(arg.gate.matrix)
    /\ UNCHANGED <<arg, appVars>>

CallGetKickbackPhase ==
    /\ fn = "none" /\ arg.call = "getKickbackPhaseForControlledGate"
    /\ fn' = arg.call
    /\ ret' = getKickbackPhaseForControlledGate(arg.gate, arg.state)
    /\ UNCHANGED <<arg, appVars>>

CallApplyMatrix ==
    /\ fn = "none" /\ arg.call = "applyMatrix"
    /\ fn' = arg.call
    /\ ret' = applyMatrix(arg.state, arg.gate.matrix)
    /\ UNCHANGED <<arg, appVars>>

\* The fold of a gate sequence from an initial state, as qubitBranches folds
\* the gates of a wire.
CallApplyGates ==
    /\ fn = "none" /\ arg.call = "applyGates"
    /\ fn' = arg.call
    /\ ret' = statesAlong(MapSeq(Len(arg.gates), LAMBDA i : OrderedGate(arg.gates[i], i - 1)),
                          arg.state)
    /\ UNCHANGED <<arg, appVars>>

CallGateHasPhaseKickbackPotential ==
    /\ fn = "none" /\ arg.call = "gateHasPhaseKickbackPotential"
    /\ fn' = arg.call
    /\ ret' = gateHasPhaseKickbackPotential(arg.gate)
    /\ UNCHANGED <<arg, appVars>>

NextMath ==
    \/ CallCreateU3Matrix
    \/ CallCreateGateInstance
    \/ CallExtractRotationFromMatrix
    \/ CallGetKickbackPhase
    \/ CallApplyMatrix
    \/ CallApplyGates
    \/ CallGateHasPhaseKickbackPotential

SpecMath == InitMath /\ [][NextMath]_vars

----------------------------------------------------------------------------
(* Properties of the kernel's pure functions, checked under SpecMath.      *)

Identity2 == << <<COne, CZero>>, <<CZero, COne>> >>

\* The conjugate transpose and the product of 2x2 matrices.
Dagger(m) == << <<cConj(m[1][1]), cConj(m[2][1])>>, <<cConj(m[1][2]), cConj(m[2][2])>> >>

MatMul(m, n) ==
    << <<cAdd(cMul(m[1][1], n[1][1]), cMul(m[1][2], n[2][1])),
         cAdd(cMul(m[1][1], n[1][2]), cMul(m[1][2], n[2][2]))>>,
       <<cAdd(cMul(m[2][1], n[1][1]), cMul(m[2][2], n[2][1])),
         cAdd(cMul(m[2][1], n[1][2]), cMul(m[2][2], n[2][2]))>> >>

\* Equality of matrices within 0.001 on every entry.
MatTol == RMk(1, 0, 1000)

MatNear(m, n) ==
    \A i \in 1..2, j \in 1..2 : cAbsLe(cSub(m[i][j], n[i][j]), MatTol)

IsUnitary(m) == MatNear(MatMul(m, Dagger(m)), Identity2)

\* The canonical family U(theta, phi, lambda) as the specification writes it.
CanonicalU(theta, phi, lambda) ==
    << <<complex(CosHalf(theta), RZero),
         cScale(cFromPolar(ROne, lambda), RNeg(SinHalf(theta)))>>,
       <<cScale(cFromPolar(ROne, phi), SinHalf(theta)),
         cScale(cFromPolar(ROne, phi + lambda), CosHalf(theta))>> >>

\* C2: for all angles, the matrix createU3Matrix returns is unitary: M times
\* its conjugate transpose is the identity.
C2_U3Unitary ==
    fn = "createU3Matrix" => IsUnitary(ret)

\* C3: for every catalog gate, createU3Matrix of the default decomposition is
\* the literal default matrix, so createGateInstance(kind) and
\* createGateInstance(kind, defaultDecomposition) carry the same matrix.
C3_DefaultDecompositionReproducesMatrix ==
    fn = "createGateInstance" =>
        /\ MatNear(createU3Matrix(ret.decomposition.theta, ret.decomposition.phi,
                                  ret.decomposition.lambda),
                   defaultMatrix(ret.gate))
        /\ MatNear(createGateInstance(ret.gate, ret.decomposition).matrix, ret.matrix)

\* C4: createU3Matrix(theta, phi, lambda) is the matrix of the canonical
\* family, whose entry [0][1] is -e^{i lambda} sin(theta/2), for all angles.
C4_U3Canonical ==
    fn = "createU3Matrix" =>
        MatNear(ret, CanonicalU(arg.decomposition.theta, arg.decomposition.phi,
                                arg.decomposition.lambda))

\* C5: for each catalog gate with default angles d and M = createU3Matrix(d),
\* the angles extractRotationFromMatrix(M) rebuild M through createU3Matrix.
C5_RoundTrip ==
    fn = "extractRotationFromMatrix" =>
        MatNear(createU3Matrix(ret.theta, ret.phi, ret.lambda), arg.gate.matrix)

\* The product of a matrix and a state, not normalised.
MatVec(m, st) ==
    <<cAdd(cMul(m[1][1], st[1]), cMul(m[1][2], st[2])),
      cAdd(cMul(m[2][1], st[1]), cMul(m[2][2], st[2]))>>

\* The angles k with M st = e^{ik} st.  Every eigenvalue of the gates called
\* with is e^{ik} for a multiple k of pi/4, so the set is empty exactly when
\* st is no eigenstate of M.
EigenPhases(m, st) ==
    {k \in {-6, -4, -2, 0, 2, 4, 6, 8} :
        \A i \in 1..2 :
            cAbsLe(cSub(MatVec(m, st)[i], cMul(cFromPolar(ROne, k), st[i])), MatTol)}

KickbackCalled == fn = "getKickbackPhaseForControlledGate"

\* C9: getKickbackPhaseForControlledGate returns null for a barrier, a control
\* marker, an absent gate or a gate without matrix, null when the state is no
\* eigenstate of the gate's matrix, 0 when it is one with eigenphase 0, and
\* else the eigenphase (up to a full turn, within [-pi, pi]); X on |-> gives
\* magnitude pi, X on |+> gives 0 and X on |0> gives null.
C9_KickbackPhase ==
    KickbackCalled =>
        IF arg.gate.gate \in {"NONE", "BARRIER", "CONTROL"} \/ arg.gate.matrix = NoMatrix
        THEN ret = NoPhase
        ELSE LET ks == EigenPhases(arg.gate.matrix, arg.state)
             IN  /\ ks = {} => ret = NoPhase
                 /\ 0 \in ks => ret = Phase(0)
                 /\ ks # {} =>
                        /\ ret # NoPhase
                        /\ ret[1] \in -PiUnits..PiUnits
                        /\ \A k \in ks : (ret[1] - k) % (2 * PiUnits) = 0
                 /\ (arg.gate.gate = "X" /\ arg.state = STATE_MINUS) => Abs(ret[1]) = PiUnits
                 /\ (arg.gate.gate = "X" /\ arg.state = STATE_PLUS) => ret = Phase(0)
                 /\ (arg.gate.gate = "X" /\ arg.state = STATE_ZERO) => ret = NoPhase

\* C9's case: X was called on |-> and answered a phase of magnitude pi.
C9_Witness ==
    /\ KickbackCalled
    /\ arg.gate.gate = "X" /\ arg.gate.matrix # NoMatrix /\ arg.state = STATE_MINUS
    /\ ret # NoPhase /\ Abs(ret[1]) = PiUnits

\* |alpha|^2 + |beta|^2 = 1
isUnitNorm(state) == RAdd(cAbs2(state[1]), cAbs2(state[2])) = ROne

\* C17: applyMatrix(state, matrix) returns a unit-norm state for every state
\* and every matrix, and the state [1, 0] when the product of the matrix
\* and the state has norm 0; every state reached by folding a gate sequence
\* from an initial state has |alpha|^2 + |beta|^2 = 1.
C17_UnitNorm ==
    /\ (fn = "applyMatrix" /\ arg.gate.matrix # NoMatrix) =>
           /\ isUnitNorm(ret)
           /\ MatVec(arg.gate.matrix, arg.state) = <<CZero, CZero>> => ret = <<COne, CZero>>
    /\ fn = "applyGates" => \A i \in DOMAIN ret : isUnitNorm(ret[i])

\* applyMatrix was called with a matrix and a state that is not of unit
\* norm, and their product was not the zero vector.
C17_Witness ==
    /\ fn = "applyMatrix" /\ arg.gate.matrix # NoMatrix
    /\ ~isUnitNorm(arg.state)
    /\ MatVec(arg.gate.matrix, arg.state) # <<CZero, CZero>>
    /\ ~isUnitNorm(MatVec(arg.gate.matrix, arg.state))
    /\ isUnitNorm(ret)

\* C18: gateHasPhaseKickbackPotential answers true exactly for Z, S, T and
\* for the U instances with |theta| <= 0.01 and |normalize(phi + lambda)|
\* > 0.01; it answers false for I, X, Y, H, barriers, control markers, null,
\* and the U instances with a non-zero theta or a cancelling phi + lambda.
C18_KickbackPotential ==
    fn = "gateHasPhaseKickbackPotential" =>
        LET g == arg.gate
            phaseOnlyU ==
                /\ g.gate = "U" /\ g.decomposition # NoDecomposition
                /\ g.decomposition.theta = 0
                /\ (g.decomposition.phi + g.decomposition.lambda) % (2 * PiUnits) # 0
        IN  /\ ret = (g.gate \in {"Z", "S", "T"} \/ phaseOnlyU)
            /\ g.gate \in {"I", "X", "Y", "H", "BARRIER", "CONTROL", "NONE"} => ret = FALSE
            /\ (g.gate = "U" /\ g.decomposition # NoDecomposition
                /\ g.decomposition.theta # 0) => ret = FALSE
            /\ (g.gate = "U" /\ g.decomposition # NoDecomposition
                /\ g.decomposition.phi + g.decomposition.lambda = 0) => ret = FALSE

\* The function was called with a U of theta 0 whose phi and lambda do not
\* cancel, and answered true.
C18_Witness ==
    /\ fn = "gateHasPhaseKickbackPotential"
    /\ arg.gate.gate = "U" /\ arg.gate.decomposition # NoDecomposition
    /\ arg.gate.decomposition.theta = 0
    /\ arg.gate.decomposition.phi # 0
    /\ arg.gate.decomposition.phi + arg.gate.decomposition.lambda # 0
    /\ ret = TRUE

----------------------------------------------------------------------------
(* Properties of the editor, checked under Spec.                           *)

\* C1: after any sequence of editor operations from the empty one-wire
\* circuit, every CONTROL marker at (c, s) with targetIndex t has a real gate
\* at (t, s) whose controlIndex is c, and every real gate at (t, s) with a
\* non-null controlIndex c has a CONTROL marker at (c, s) whose targetIndex
\* is t.
C1_ControlPairing ==
    \A q \in Qubits(circuits), s \in Slots(circuits) :
        LET cell == circuits[q][s]
        IN  /\ cell.gate = "CONTROL" =>
                   /\ cell.targetIndex \in Qubits(circuits)
                   /\ circuits[cell.targetIndex][s].gate \notin {"NONE", "CONTROL"}
                   /\ circuits[cell.targetIndex][s].controlIndex = q
            /\ (cell.gate \notin {"NONE", "CONTROL"} /\ cell.controlIndex # Null) =>
                   /\ cell.controlIndex \in Qubits(circuits)
                   /\ circuits[cell.controlIndex][s].gate = "CONTROL"
                   /\ circuits[cell.controlIndex][s].targetIndex = q

----------------------------------------------------------------------------
(* Properties of the branch engine, checked under SpecEngine.              *)

\* The k-th smallest barrier slot, k counted from 1.
kthBarrier(k) ==
    LET slots == {barriers[i] : i \in DOMAIN barriers}
    IN  CHOOSE b \in slots : Cardinality({b2 \in slots : b2 < b}) = k - 1

\* The occupied slots of a wire that a frame shows.
frameSlots(qi, frame) ==
    LET cells == {s \in Slots(circuits) : IsGate(circuits[qi][s])}
    IN  IF frame = 0 THEN {}
        ELSE IF frame <= barrierCount THEN {s \in cells : s < kthBarrier(frame)}
        ELSE cells

\* The effective gate list of wire qi at the frame shown, and the controls
\* and control probabilities of a gate list.
wireGates(qi) == effectiveGates(qi, currentFrame, buildColumnStateCache(currentFrame))

wireControls(gates) == uniqueControls(SelectSeq(gates, isControlledGate))

wireProbs(gates) ==
    controlProbs(wireControls(gates), SelectSeq(gates, isControlledGate),
                 buildColumnStateCache(currentFrame))

\* The control assignments of a list of controls, as the loop counts them.
assignments(controls) == 0..(2 ^ Len(controls) - 1)

\* The branch of an assignment is in the output, alone or merged.
Represented(candidate, branches) ==
    \E i \in DOMAIN branches :
        /\ coordsEqual(branches[i].coords, candidate.coords)
        /\ phasesEqual(branches[i].rotations, candidate.rotations)

RECURSIVE sumProbability(_)
sumProbability(branches) ==
    IF branches = <<>> THEN RZero
    ELSE RAdd(branches[1].probability, sumProbability(Tail(branches)))

\* No assignment of probability >= 0.01 that the branches leave out weighs
\* more than a branch.
DropsLowestFirst(gates, controls, probs, branches) ==
    \A combo \in assignments(controls) :
        \A p \in {comboProbability(combo, probs, Len(controls))} :
            (/\ RGe(p, ProbThreshold)
             /\ ~Represented(comboBranch(combo, gates, controls, probs), branches))
            => \A i \in DOMAIN branches : RLe(p, branches[i].probability)

\* C6: on every wire, every control assignment of probability >= 0.01 that
\* is not represented among the returned branches has a probability no
\* greater than that of each returned branch.
C6_CapDropsLowestFirst ==
    \A qi \in Qubits(circuits) :
        \A gates \in {wireGates(qi)} :
            \A controls \in {wireControls(gates)}, probs \in {wireProbs(gates)},
               branches \in {qubitBranches[qi]} :
                DropsLowestFirst(gates, controls, probs, branches)

\* C7: on every wire the returned branches have probabilities > 0 that sum
\* to at most 1.
C7_BranchProbabilities ==
    \A qi \in Qubits(circuits) :
        \A branches \in {qubitBranches[qi]} :
            /\ \A i \in DOMAIN branches : RGt(branches[i].probability, RZero)
            /\ RLe(sumProbability(branches), ROne)

\* A wire with controlled gates returns several branches whose probabilities
\* sum to less than 1.
C7_Witness ==
    \E qi \in Qubits(circuits) :
        \E gates \in {wireGates(qi)}, branches \in {qubitBranches[qi]} :
            /\ Len(wireControls(gates)) > 0
            /\ Len(branches) > 1
            /\ RLt(sumProbability(branches), ROne)

AllBelowThreshold(controls, probs) ==
    \A combo \in assignments(controls) :
        RLt(comboProbability(combo, probs, Len(controls)), RMk(1, 0, 100))

\* C8: every wire gets at least one and at most 10 branches, and when every
\* control assignment of the wire has probability < 0.01 it gets exactly one
\* branch: the initial state, probability 1, no rotations.
C8_BranchList ==
    \A qi \in Qubits(circuits) :
        \A gates \in {wireGates(qi)} :
            \A controls \in {wireControls(gates)}, probs \in {wireProbs(gates)},
               branches \in {qubitBranches[qi]} :
                /\ Len(branches) >= 1
                /\ Len(branches) <= 10
                /\ AllBelowThreshold(controls, probs) =>
                       branches = <<[state |-> getInitialState,
                                     coords |-> stateToBlochCoords(getInitialState),
                                     probability |-> ROne, rotations |-> <<>>]>>

\* A wire with controlled gates all of whose control assignments are below
\* the threshold.
C8_Witness ==
    \E qi \in Qubits(circuits) :
        \E gates \in {wireGates(qi)} :
            \E controls \in {wireControls(gates)}, probs \in {wireProbs(gates)},
               branches \in {qubitBranches[qi]} :
                /\ Len(controls) > 0
                /\ AllBelowThreshold(controls, probs)
                /\ Len(branches) = 1

\* The synthesized gates of a gate list at slot s.
synthesizedAt(gateList, s) ==
    {i \in DOMAIN gateList : gateList[i].isDerivedKickback /\ gateList[i].slot = s}

\* The controlled gates of the frame shown that kick a non-zero phase back:
\* target wire, gate and phase.
kickingGates ==
    LET stateCache == buildColumnStateCache(currentFrame)
        gatesOf(t) == {[t |-> t, gate |-> g] :
                          g \in {getOrderedGates(t, currentFrame)[i] :
                                    i \in DOMAIN getOrderedGates(t, currentFrame)}}
        controlled == {e \in UNION {gatesOf(t) : t \in Qubits(circuits)} :
                          isControlledGate(e.gate)}
        kicks == {[t |-> e.t, gate |-> e.gate,
                   phase |-> getKickbackPhaseForControlledGate(e.gate,
                                 getControlStateAtSlot(stateCache, e.t, e.gate.slot))] :
                     e \in controlled}
    IN  {k \in kicks : k.phase # NoPhase /\ k.phase # Phase(0)}

\* C10: for every controlled gate on wire t, controlled by wire c at slot s,
\* whose kickback phase p is non-null and non-zero, the effective gate list
\* of wire c holds exactly one synthesized uncontrolled gate at slot s, of
\* decomposition (0, 0, p), and the lists of wire t and of every wire that
\* controls no kicking gate at slot s hold no synthesized gate at slot s.
C10_KickbackOnControlWire ==
    \A kicking \in {kickingGates} : \A k \in kicking :
        LET c == k.gate.controlIndex
            s == k.gate.slot
        IN  /\ c \in Qubits(circuits)
            /\ \A gates \in {wireGates(c)} :
                   /\ Cardinality(synthesizedAt(gates, s)) = 1
                   /\ \A i \in synthesizedAt(gates, s) :
                          /\ gates[i].decomposition = Decomp(0, 0, k.phase[1])
                          /\ gates[i].controlIndex = Null
            /\ \A w \in Qubits(circuits) :
                   (w = k.t \/ ~\E k2 \in kicking :
                                   k2.gate.controlIndex = w /\ k2.gate.slot = s)
                   => \A gates \in {wireGates(w)} : synthesizedAt(gates, s) = {}

\* The gate at slot s is among the gates of the frame shown.
frameShows(s) ==
    /\ currentFrame >= 1
    /\ currentFrame > barrierCount \/ s < barriers[currentFrame]

\* Wire c controls the gate of the given kind on wire t at slot s and nothing
\* else, its dot is the last cell of its row, and the frame shown holds the
\* gate.
controlsOnly(c, t, s, kind) ==
    /\ c # t
    /\ circuits[t][s].gate = kind /\ circuits[t][s].controlIndex = c
    /\ circuits[c][s].gate = "CONTROL" /\ circuits[c][s].targetIndex = t
    /\ frameShows(s)
    /\ \A s2 \in Slots(circuits) : s2 > s => circuits[c][s2] = EmptyCell
    /\ \A t2 \in Qubits(circuits), s2 \in Slots(circuits) :
           (circuits[t2][s2].controlIndex = c /\ circuits[t2][s2].gate # "CONTROL")
           => (t2 = t /\ s2 = s)
    /\ \A s2 \in Slots(circuits) : ~isControlledGate(OrderedGate(circuits[c][s2], s2))

\* The states of wires c and t before slot s, as the state cache holds them.
preparedAs(c, t, s, controlState, targetState) ==
    \A stateCache \in {buildColumnStateCache(currentFrame)} :
        /\ getControlStateAtSlot(stateCache, c, s) = controlState
        /\ getControlStateAtSlot(stateCache, t, s) = targetState

\* The branches of wire c are the single branch of the given state.
singleBranch(c, state) ==
    \A branches \in {qubitBranches[c]} :
        /\ Len(branches) = 1
        /\ branches[1].state = state
        /\ branches[1].probability = ROne

\* C11: with the control wire prepared in |+> and the target wire in |1>
\* before a controlled Z at the same slot, the state of the control wire
\* after the gate is (|0> - |1>)/sqrt 2; with a controlled S it is
\* (|0> + i|1>)/sqrt 2.
C11_KickbackState ==
    \A c \in Qubits(circuits), t \in Qubits(circuits), s \in Slots(circuits) :
        /\ (controlsOnly(c, t, s, "Z") /\ preparedAs(c, t, s, STATE_PLUS, STATE_ONE))
           => singleBranch(c, STATE_MINUS)
        /\ (controlsOnly(c, t, s, "S") /\ preparedAs(c, t, s, STATE_PLUS, STATE_ONE))
           => singleBranch(c, STATE_I)

\* Both cases at once: a controlled Z and a controlled S, each on a target in
\* |1> with its control in |+>, and the two control wires in the states of
\* the claim.
C11_Witness ==
    \E c \in Qubits(circuits), t \in Qubits(circuits), s \in Slots(circuits) :
        \E c2 \in Qubits(circuits), t2 \in Qubits(circuits), s2 \in Slots(circuits) :
            /\ controlsOnly(c, t, s, "Z") /\ preparedAs(c, t, s, STATE_PLUS, STATE_ONE)
            /\ controlsOnly(c2, t2, s2, "S") /\ preparedAs(c2, t2, s2, STATE_PLUS, STATE_ONE)
            /\ singleBranch(c, STATE_MINUS)
            /\ singleBranch(c2, STATE_I)

\* A controlled Z on wire t at slot s, controlled by wire c, whose target is
\* |0> in the state cache of the frame shown.
zeroTargetCZ(c, t, s) ==
    /\ c # t
    /\ circuits[t][s].gate = "Z" /\ circuits[t][s].controlIndex = c
    /\ circuits[c][s].gate = "CONTROL" /\ circuits[c][s].targetIndex = t
    /\ frameShows(s)
    /\ buildColumnStateCache(currentFrame)[t][s] = STATE_ZERO

\* The last edit removed a controlled Z whose target was |0> before it, all
\* frames being shown, and the circuit, the initial state and the frame are
\* still those the edit left.
removedZeroTargetCZ ==
    /\ fn = "handleRemoveGate"
    /\ arg.gate.gate = "Z"
    /\ arg.gate.controlIndex \in Qubits(circuits)
    /\ arg.targetStateBefore = STATE_ZERO
    /\ arg.animationFrame = -1 /\ animationFrame = -1
    /\ arg.initialStateMode = initialStateMode
    /\ circuits = handleRemoveGateEdit(arg.circuits, arg.qi, arg.si).circuits

\* C12: a controlled Z whose target wire is |0> immediately before the gate
\* adds no kickback gate to the controlling wire, and the branches of the
\* controlling wire (states, probabilities, rotations) are those of the same
\* circuit with the controlled Z removed.
C12_NoKickbackOnZeroTarget ==
    /\ \A c \in Qubits(circuits), t \in Qubits(circuits), s \in Slots(circuits) :
           zeroTargetCZ(c, t, s) =>
               \A gates \in {wireGates(c)} : synthesizedAt(gates, s) = {}
    /\ removedZeroTargetCZ =>
           qubitBranches[arg.gate.controlIndex] = ret[arg.gate.controlIndex]

\* A controlled Z on a target in |0> was removed while its controlling wire
\* was in the superposition (|0> - |1>)/sqrt 2, which a kickback gate would
\* have changed, and the wire is in that state after the removal.
C12_Witness ==
    /\ removedZeroTargetCZ
    /\ Len(ret[arg.gate.controlIndex]) = 1
    /\ ret[arg.gate.controlIndex][1].state = STATE_MINUS
    /\ singleBranch(arg.gate.controlIndex, STATE_MINUS)

\* The product, over the wires, of the probability of the bit of the label.
RECURSIVE labelProbability(_, _, _)
labelProbability(label, states, q) ==
    IF q = 0 THEN ROne
    ELSE RMul(labelProbability(label, states, q - 1),
              IF label[q] = 0 THEN cAbs2(states[q][1]) ELSE cAbs2(states[q][2]))

\* The state of a most probable branch, the first of them.
isRepresentative(state, branches) ==
    \E i \in DOMAIN branches :
        /\ branches[i].state = state
        /\ \A j \in DOMAIN branches : RGe(branches[i].probability, branches[j].probability)
        /\ \A j \in 1..(i - 1) : RGt(branches[i].probability, branches[j].probability)

\* Every wire shows the single branch |0>.
allWiresZero ==
    \A qi \in Qubits(circuits) : singleBranch(qi, STATE_ZERO)

\* C15: the per-wire states handed to getMultiQubitProbabilities are those of
\* the most probable branch of each wire, and with includeZero the function
\* returns one entry per basis string of n bits (wire 0 first) whose
\* probability is the product of each wire's prob0 or prob1, in descending
\* order of probability; for n wires in |0> the all-zero string has
\* probability 1 and every other string 0.
C15_MultiQubitProbabilities ==
    \A states \in {qubitStates} : \A results \in {allProbabilities} :
        LET n == numQubits(circuits)
        IN  /\ Len(states) = n
            /\ \A qi \in Qubits(circuits) :
                   isRepresentative(states[qi + 1], qubitBranches[qi])
            /\ Len(results) = 2 ^ n
            /\ {results[i].state : i \in DOMAIN results} = [1..n -> {0, 1}]
            /\ \A i \in DOMAIN results :
                   results[i].probability = labelProbability(results[i].state, states, n)
            /\ \A i \in 1..(Len(results) - 1) :
                   RGe(results[i].probability, results[i + 1].probability)
            /\ allWiresZero =>
                   \A i \in DOMAIN results :
                       results[i].probability =
                           IF results[i].state = [q \in 1..n |-> 0] THEN ROne ELSE RZero

\* Several wires of different probabilities: a wire in |1>, a wire in a
\* superposition, and a result list whose entries are not all equal.
C15_Witness ==
    \E states \in {qubitStates} : \E results \in {allProbabilities} :
        /\ Len(states) >= 2
        /\ \E q \in DOMAIN states : states[q] = STATE_ONE
        /\ \E q \in DOMAIN states : cAbs2(states[q][1]) = cAbs2(states[q][2])
        /\ results[1].probability # results[Len(results)].probability

\* The slots of the segment of frame f >= 1: from the previous barrier, or
\* 0, up to the f-th barrier excluded, or to the end for the last frame.
segmentSlots(f) ==
    {s \in Slots(circuits) :
        /\ f > 1 => s >= kthBarrier(f - 1)
        /\ f <= barrierCount => s < kthBarrier(f)}

\* The controlled real gates of the segment of frame f, as cells <<q, s>>.
controlledGatesOfSegment(f) ==
    {cell \in Qubits(circuits) \X segmentSlots(f) :
        /\ circuits[cell[1]][cell[2]].gate \notin {"NONE", "CONTROL"}
        /\ circuits[cell[1]][cell[2]].controlIndex # Null}

\* The event of the controlled gate at <<q, s>>: its control, its wire, and
\* whether a kickback phase of magnitude > 0.01 exists for the cached state
\* of its wire before it.
eventOf(cell, f) ==
    LET q == cell[1]
        s == cell[2]
        phase == getKickbackPhaseForControlledGate(OrderedGate(circuits[q][s], s),
                     buildColumnStateCache(f)[q][s])
    IN  [from |-> circuits[q][s].controlIndex, to |-> q,
         hasKickback |-> (phase # NoPhase /\ phase # Phase(0))]

\* C16: while playing at a frame f >= 1, activeControlSignals holds exactly
\* one event {from, to, hasKickback} per controlled real gate whose slot lies
\* in the segment of frame f, hasKickback being true exactly when the
\* kickback phase for the target's cached state before the gate is non-null
\* and of magnitude > 0.01; it is empty when not playing or at frame 0.
C16_ActiveControlSignals ==
    \A signals \in {activeControlSignals} :
        IF isPlaying /\ animationFrame >= 1
        THEN \A gates \in {controlledGatesOfSegment(animationFrame)} :
                 /\ Len(signals) = Cardinality(gates)
                 /\ \A cell \in gates : \A e \in {eventOf(cell, animationFrame)} :
                        Cardinality({i \in DOMAIN signals : signals[i] = e})
                        = Cardinality({c2 \in gates : eventOf(c2, animationFrame) = e})
        ELSE signals = <<>>

\* The player is at a frame after a barrier, the segment holds some of the
\* controlled gates and not all, and an event reports a kickback.
C16_Witness ==
    \E signals \in {activeControlSignals} :
        /\ isPlaying /\ animationFrame >= 2
        /\ Len(signals) >= 1
        /\ Len(signals) < Cardinality({cell \in Qubits(circuits) \X Slots(circuits) :
                                          /\ circuits[cell[1]][cell[2]].gate \notin {"NONE", "CONTROL"}
                                          /\ circuits[cell[1]][cell[2]].controlIndex # Null})
        /\ \E i \in DOMAIN signals : signals[i].hasKickback

\* The controlling wires asserted by an assignment.
assertedControls(combo, controls) ==
    {controls[i] : i \in {j \in DOMAIN controls : isActive(combo, j)}}

\* The state of the controlling wire c in the state cache, at the slot of the
\* first gate of the list that c controls.
cachedControlState(c, gates) ==
    LET controlled == {i \in DOMAIN gates :
                          gates[i].gate # "CONTROL" /\ gates[i].controlIndex = c}
        first == CHOOSE i \in controlled : \A j \in controlled : i <= j
    IN  buildColumnStateCache(currentFrame)[c][gates[first].slot]

\* The product, over a set of controlling wires, of the probability of |1>
\* for an asserted wire and of |0> for another.
RECURSIVE assignmentProbability(_, _, _)
assignmentProbability(wires, asserted, gates) ==
    IF wires = {} THEN ROne
    ELSE LET c == CHOOSE w \in wires : TRUE
             state == cachedControlState(c, gates)
         IN  RMul(IF c \in asserted THEN cAbs2(state[2]) ELSE cAbs2(state[1]),
                  assignmentProbability(wires \ {c}, asserted, gates))

\* The gates of a list that are no control marker and are uncontrolled or
\* controlled by an asserted wire.
gatesOfAssignment(gates, asserted) ==
    SelectSeq(gates, LAMBDA g : /\ g.gate # "CONTROL"
                                /\ g.controlIndex = Null \/ g.controlIndex \in asserted)

\* C19: for each control assignment enumerated for a wire, the probability
\* of its branch is the product, over the distinct controlling wires, of the
\* control's |1> probability if asserted and else its |0> probability, read
\* from the controlling wire's state-cache entry at the slot of the gate it
\* controls, and the gates applied in the branch are the uncontrolled gates
\* of the effective list and the controlled gates whose controlling wire is
\* asserted.
C19_AssignmentBranch ==
    \A qi \in Qubits(circuits) :
        \A gates \in {wireGates(qi)} :
            \A controls \in {wireControls(gates)}, probs \in {wireProbs(gates)} :
                \A combo \in keptCombos(controls, probs) :
                    \A branch \in {comboBranch(combo, gates, controls, probs)},
                       asserted \in {assertedControls(combo, controls)} :
                        \A applied \in {gatesOfAssignment(gates, asserted)} :
                            /\ branch.probability =
                                   assignmentProbability(
                                       {controls[i] : i \in DOMAIN controls}, asserted, gates)
                            /\ branch.state = applyGates(applied, getInitialState)
                            /\ branch.rotations = buildRotations(applied)

\* A wire with several controls, one of them neither certain nor even, and
\* an enumerated assignment that asserts some controls and not others.
C19_Witness ==
    \E qi \in Qubits(circuits) :
        \E gates \in {wireGates(qi)} :
            \E controls \in {wireControls(gates)}, probs \in {wireProbs(gates)} :
                /\ Len(controls) >= 2
                /\ \E i \in DOMAIN probs :
                       probs[i] \notin {RZero, ROne, RMk(1, 0, 2)}
                /\ \E combo \in keptCombos(controls, probs) :
                       \E asserted \in {assertedControls(combo, controls)} :
                           /\ asserted # {}
                           /\ asserted # {controls[i] : i \in DOMAIN controls}
                           /\ gatesOfAssignment(gates, asserted) # gates

\* An angle brought into (-pi, pi].
halfOpenAngle(a) == ((a + PiUnits - 1) % (2 * PiUnits)) - (PiUnits - 1)

\* The accumulated totals of two rotation lists, each brought into
\* (-pi, pi], agree within 0.01.
totalsAgree(rots1, rots2) ==
    /\ halfOpenAngle(sumAngle(rots1, "theta")) = halfOpenAngle(sumAngle(rots2, "theta"))
    /\ halfOpenAngle(sumAngle(rots1, "lambda")) = halfOpenAngle(sumAngle(rots2, "lambda"))
    /\ halfOpenAngle(sumAngle(rots1, "phi")) = halfOpenAngle(sumAngle(rots2, "phi"))

sameBranch(b1, b2) ==
    coordsEqual(b1.coords, b2.coords) /\ totalsAgree(b1.rotations, b2.rotations)

\* The wire has two controls, each of one gate, and all its assignments
\* give the same position and phase.
twoControlsCollapse(gates, controls, probs) ==
    /\ Len(controls) = 2
    /\ Len(SelectSeq(gates, isControlledGate)) = 2
    /\ \A c1 \in assignments(controls), c2 \in assignments(controls) :
           sameBranch(comboBranch(c1, gates, controls, probs),
                      comboBranch(c2, gates, controls, probs))

\* C20: the branch list of a wire holds no two branches whose Bloch
\* coordinates agree within 0.01 on each axis and whose accumulated totals
\* of theta, lambda and phi, each normalised to (-pi, pi], agree within 0.01;
\* a wire with two independent single controls whose assignments all give
\* the same position and phase gets exactly one branch, of probability 1.
C20_MergedBranchesDistinct ==
    \A qi \in Qubits(circuits) :
        \A gates \in {wireGates(qi)}, branches \in {qubitBranches[qi]} :
            /\ \A i \in DOMAIN branches, j \in DOMAIN branches :
                   i < j => ~sameBranch(branches[i], branches[j])
            /\ \A controls \in {wireControls(gates)}, probs \in {wireProbs(gates)} :
                   twoControlsCollapse(gates, controls, probs) =>
                       /\ Len(branches) = 1
                       /\ branches[1].probability = ROne

\* The cell of wire qi at slot s is a gate, no control marker, and the frame
\* holds it.
realGateShown(qi, s, frame) ==
    s \in frameSlots(qi, frame) /\ circuits[qi][s].gate # "CONTROL"

\* The phases kicked back to wire qi at slot s, by increasing target wire.
phasesKickedTo(qi, s, kicking) ==
    LET from(t) == {k \in kicking : k.t = t /\ k.gate.controlIndex = qi /\ k.gate.slot = s}
        targets == SelectSeq([i \in 1..numQubits(circuits) |-> i - 1],
                             LAMBDA t : from(t) # {})
    IN  MapSeq(Len(targets), LAMBDA i : (CHOOSE k \in from(targets[i]) : TRUE).phase[1])

\* A state after the phase gates U(0, 0, p) of a list of phases.
RECURSIVE kicked(_, _)
kicked(state, phases) ==
    IF phases = <<>> THEN state
    ELSE Bind(applyMatrix(state, createU3Matrix(0, 0, Head(phases))),
              LAMBDA after : kicked(after, Tail(phases)))

\* The state of wire qi after the slots below n: from the initial state,
\* slot by slot, the gate of the row and then the phases kicked back at the
\* slot.
RECURSIVE foldedThrough(_, _, _)
foldedThrough(qi, n, kicking) ==
    IF n = 0 THEN getInitialState
    ELSE Bind(foldedThrough(qi, n - 1, kicking), LAMBDA before :
             Bind(IF realGateShown(qi, n - 1, currentFrame)
                  THEN applyMatrix(before, circuits[qi][n - 1].matrix)
                  ELSE before,
                  LAMBDA after : kicked(after, phasesKickedTo(qi, n - 1, kicking))))

\* No gate of wire qi that the frame shown holds has a control.
noControlShown(qi) ==
    \A s \in Slots(circuits) :
        realGateShown(qi, s, currentFrame) => circuits[qi][s].controlIndex = Null

\* C21: a wire whose effective list (the gates of its row within the frame's
\* prefix and the synthesized kickback gates) holds no gate with a control
\* gets exactly one branch, of probability 1, whose state is the fold of the
\* effective list in slot order from the initial state of the selected mode.
C21_SingleBranch ==
    \A kicking \in {kickingGates} :
        \A qi \in Qubits(circuits) :
            noControlShown(qi) =>
                \A branches \in {qubitBranches[qi]} :
                    /\ Len(branches) = 1
                    /\ branches[1].probability = ROne
                    /\ branches[1].state =
                           foldedThrough(qi, Cardinality(Slots(circuits)), kicking)

\* A wire without controlled gates whose list holds a gate of its row and a
\* synthesized gate, both of which change its state.
C21_Witness ==
    \E qi \in Qubits(circuits) :
        /\ noControlShown(qi)
        /\ \E s \in Slots(circuits) : realGateShown(qi, s, currentFrame)
        /\ \E k \in kickingGates : k.gate.controlIndex = qi
        /\ \A branches \in {qubitBranches[qi]} :
               /\ Len(branches) = 1
               /\ branches[1].state # getInitialState
               /\ branches[1].state # applyGates(getOrderedGates(qi, currentFrame),
                                                 getInitialState)


\* The state of wire w before slot s in the prefix of a frame: from the
\* initial state, the gates of the row at the slots below s that the frame
\* holds, control markers passed over.
RECURSIVE rowStateBefore(_, _, _)
rowStateBefore(w, frame, s) ==
    IF s = 0 THEN getInitialState
    ELSE Bind(rowStateBefore(w, frame, s - 1), LAMBDA before :
             IF realGateShown(w, s - 1, frame)
             THEN applyMatrix(before, circuits[w][s - 1].matrix)
             ELSE before)

\* C22: buildColumnStateCache(frame)[w][s] is the initial state of the
\* selected mode evolved through every gate of wire w (control markers
\* skipped, controlled gates applied unconditionally, no kickback gate) that
\* lies in the frame's prefix at a slot below s, for every wire w and every
\* slot s of 0..maxSlot + 1.
C22_ColumnStateCache ==
    \A frame \in 0..(barrierCount + 1) :
        \A stateCache \in {buildColumnStateCache(frame)} :
            \A w \in Qubits(circuits), s \in 0..(maxSlot(circuits) + 1) :
                stateCache[w][s] = rowStateBefore(w, frame, s)

\* A frame cut by a barrier, a wire whose controlled gate changes its cached
\* state, and a wire that controls a kicking gate: the cache of the last
\* frame differs from that of the cut frame and from the wire's branch.
C22_Witness ==
    /\ barrierCount >= 1
    /\ \A stateCache \in {buildColumnStateCache(barrierCount + 1)} :
           /\ \E w \in Qubits(circuits), s \in Slots(circuits) :
                  /\ circuits[w][s].gate # "CONTROL"
                  /\ circuits[w][s].controlIndex # Null
                  /\ stateCache[w][s + 1] # stateCache[w][s]
                  /\ stateCache[w][s + 1] # buildColumnStateCache(1)[w][s + 1]
           /\ \E k \in kickingGates :
                  /\ animationFrame = -1
                  /\ \A branches \in {qubitBranches[k.gate.controlIndex]} :
                         /\ Len(branches) = 1
                         /\ branches[1].state #
                                stateCache[k.gate.controlIndex][maxSlot(circuits) + 1]

\* The cells of the controlled gates, control markers left out.
controlledGateCells ==
    {cell \in Qubits(circuits) \X Slots(circuits) :
        /\ circuits[cell[1]][cell[2]].gate \notin {"NONE", "CONTROL"}
        /\ hasControlIndex(circuits[cell[1]][cell[2]])}

\* The frames of a playback in which the gate of a cell is in the active
\* slot range.
signalFrames(cell) ==
    {frame \in 1..(barrierCount + 1) :
        cell[2] >= signalMinSlot(frame) /\ belowSignalMaxSlot(cell[2], frame)}

\* The number of events from wire from to wire to in the first frames of
\* playback, the list of the frames' event lists.
RECURSIVE signalsThrough(_, _, _, _)
signalsThrough(playback, frames, from, to) ==
    IF frames = 0 THEN 0
    ELSE signalsThrough(playback, frames - 1, from, to)
         + Cardinality({i \in DOMAIN playback[frames] :
                           /\ playback[frames][i].from = from
                           /\ playback[frames][i].to = to})

\* C27: over the frames 1..barrierCount + 1 of a playback of the circuit,
\* every controlled gate is in the active slot range of exactly one frame,
\* and the events from a wire to a wire over those frames are as many as the
\* controlled gates of that pair of wires.
C27_OneSignalPerGate ==
    /\ \A cell \in controlledGateCells : Cardinality(signalFrames(cell)) = 1
    /\ \A playback \in {MapSeq(barrierCount + 1, LAMBDA frame : signalsOfFrame(frame))} :
           \A from \in Qubits(circuits), to \in Qubits(circuits) :
               signalsThrough(playback, barrierCount + 1, from, to)
               = Cardinality({cell \in controlledGateCells :
                                 /\ cell[1] = to
                                 /\ circuits[cell[1]][cell[2]].controlIndex = from})

\* A barrier with controlled gates on both sides, one of them at the
\* barrier's own slot.
C27_Witness ==
    /\ barrierCount >= 1
    /\ \E cell \in controlledGateCells : cell[2] < barriers[1]
    /\ \E cell \in controlledGateCells : cell[2] = barriers[1]

----------------------------------------------------------------------------
(* Properties of the frames, checked under Spec.                           *)

\* A gate list holds the cells of the given slots of a wire, each once, with
\* its slot, in increasing slot order.
holdsCells(gateList, qi, slots) ==
    /\ Len(gateList) = Cardinality(slots)
    /\ {gateList[i].slot : i \in DOMAIN gateList} = slots
    /\ \A i \in DOMAIN gateList : gateList[i] = OrderedGate(circuits[qi][gateList[i].slot], gateList[i].slot)
    /\ \A i \in DOMAIN gateList, j \in DOMAIN gateList : i < j => gateList[i].slot < gateList[j].slot

\* C13: getOrderedGates(wire, frame) returns no cell for frame 0, exactly the
\* cells of slot below the k-th smallest barrier for frame k in
\* 1..barrierCount, and all cells for frame barrierCount + 1, always in
\* increasing slot order; the sentinel -1 is evaluated as barrierCount + 1.
C13_OrderedGates ==
    /\ \A qi \in Qubits(circuits), frame \in 0..(barrierCount + 1) :
           holdsCells(getOrderedGates(qi, frame), qi, frameSlots(qi, frame))
    /\ animationFrame = -1 => currentFrame = barrierCount + 1

\* A wire with a cell below the first barrier and a cell at its slot, all
\* frames being shown: frame 1 shows the first cell and not the second.
C13_Witness ==
    /\ animationFrame = -1
    /\ barrierCount >= 1
    /\ \E qi \in Qubits(circuits) :
           /\ kthBarrier(1) \in Slots(circuits)
           /\ IsGate(circuits[qi][kthBarrier(1)])
           /\ Len(getOrderedGates(qi, 1)) >= 1
           /\ Len(getOrderedGates(qi, 1)) < Len(getOrderedGates(qi, currentFrame))

\* C14: in every reachable state animationFrame is -1 or an integer of
\* 0..barriers.length + 1, under any interleaving of play, pause, the step
\* buttons, the timer ticks and the edits of the circuit and the barriers.
C14_FrameRange ==
    animationFrame = -1 \/ animationFrame \in 0..(Len(barriers) + 1)

\* The player has played a circuit with a barrier up to its last frame.
C14_Witness ==
    /\ isPlaying
    /\ Len(barriers) >= 1
    /\ animationFrame = Len(barriers) + 1

----------------------------------------------------------------------------
(* Properties of the edits, checked under Spec and SpecWide.               *)

\* The cells of a circuit that hold a gate, control markers left out.
realGates(c) ==
    {cell \in Qubits(c) \X Slots(c) : c[cell[1]][cell[2]].gate \notin {"NONE", "CONTROL"}}

\* The cell (q, s) and the cell of its control marker or of its target.
pairOf(c, q, s) ==
    {<<q, s>>} \cup
    (IF c[q][s].gate = "CONTROL" THEN {<<c[q][s].targetIndex, s>>}
     ELSE IF hasControlIndex(c[q][s]) THEN {<<c[q][s].controlIndex, s>>}
     ELSE {})

\* Every occupied cell of c outside asked is in d, on its wire, at its slot
\* or one slot to the right.
othersKept(c, d, asked) ==
    \A q \in Qubits(c), s \in Slots(c) :
        (IsGate(c[q][s]) /\ <<q, s>> \notin asked) =>
            \/ d[q][s] = c[q][s]
            \/ s + 1 \in Slots(d) /\ d[q][s + 1] = c[q][s]

\* C23: after handleInsertGate, handleUpdateGate or handleMoveGate every gate
\* and control marker that was in the circuit before, other than the moved
\* or updated gate and its own marker, is still present, at its slot or one
\* slot to the right, and the number of gates changes by +1 on insert and by
\* 0 on update and move.
C23_NoCellDestroyed ==
    [][/\ \A qi \in Qubits(circuits), si \in Slots(circuits), name \in PaletteGates :
              InsertGate(qi, si, name) =>
                  /\ othersKept(circuits, circuits', {})
                  /\ Cardinality(realGates(circuits')) = Cardinality(realGates(circuits)) + 1
       /\ \A qi \in Qubits(circuits), si \in Slots(circuits),
             ctrl \in {Null} \cup Qubits(circuits) :
              UpdateGate(qi, si, ctrl) =>
                  /\ othersKept(circuits, circuits', pairOf(circuits, qi, si))
                  /\ Cardinality(realGates(circuits')) = Cardinality(realGates(circuits))
       /\ \A fromQi \in Qubits(circuits), fromSi \in Slots(circuits),
             toQi \in Qubits(circuits), toSi \in Slots(circuits) :
              MoveGate(fromQi, fromSi, toQi, toSi) =>
                  /\ othersKept(circuits, circuits', pairOf(circuits, fromQi, fromSi))
                  /\ Cardinality(realGates(circuits')) = Cardinality(realGates(circuits))
      ]_vars

\* The cells of the gates of c other than the asked ones.
otherGates(c, asked) == realGates(c) \ asked

\* The slot a column shift at slot from gives to a cell of slot s.
shiftedSlot(s, from) == IF s >= from THEN s + 1 ELSE s

\* barrier by barrier, the gate at slot before and then at slot after is on
\* the same side.
sameSegment(before, after, b, d) ==
    \A i \in DOMAIN b : (before < b[i]) <=> (after < d[i])

\* An edit that shifted moved every barrier at or right of the shift one slot
\* right and no other, and every gate outside asked, carried by the shift to
\* its slot or the next, is on the same side of every barrier as before.
segmentsKept(edit, asked) ==
    \A b \in {barriers}, d \in {barriersAfter(edit)} :
        /\ DOMAIN d = DOMAIN b
        /\ \A i \in DOMAIN b : d[i] = IF b[i] >= edit.shift THEN b[i] + 1 ELSE b[i]
        /\ \A cell \in otherGates(circuits, asked) :
               sameSegment(cell[2], shiftedSlot(cell[2], edit.shift), b, d)

\* The gate at (qi, si), which an update leaves at its slot.
updatedGateKept(edit, qi, si) ==
    edit.circuits[qi][si].gate = circuits[qi][si].gate
    /\ sameSegment(si, si, barriers, barriersAfter(edit))

\* C24: whenever an edit shifts all columns right from slot s, every barrier
\* at index >= s is incremented by 1 and the others are unchanged, and for
\* every gate that was in the circuit and that the user did not drag, and
\* every barrier, the relation 'gate slot < barrier index' is the same before
\* and after the edit.
C24_SegmentsKept ==
    /\ \A qi \in Qubits(circuits), si \in DropSlots(circuits), name \in PaletteGates :
           \A edit \in {handleInsertGateEdit(circuits, qi, si,
                                             createGateInstance(name, NoDecomposition))} :
               (Explored /\ WithinBounds(edit) /\ edit.shift # Null) =>
                   segmentsKept(edit, {})
    /\ \A qi \in Qubits(circuits), si \in Slots(circuits) :
           \A ctrl \in {Null} \cup (Qubits(circuits) \ {qi}) :
               \A edit \in {handleUpdateGateEdit(circuits, qi, si,
                                [circuits[qi][si] EXCEPT !.controlIndex = ctrl])} :
                   (CanUpdate(qi, si) /\ WithinBounds(edit) /\ edit.shift # Null) =>
                       /\ segmentsKept(edit, {<<qi, si>>})
                       /\ updatedGateKept(edit, qi, si)
    /\ \A fromQi \in Qubits(circuits), fromSi \in Slots(circuits),
          toQi \in Qubits(circuits), toSi \in DropSlots(circuits) :
           \A edit \in {handleMoveGateEdit(circuits, fromQi, fromSi, toQi, toSi)} :
               (CanMove(fromQi, fromSi, toQi, toSi) /\ WithinBounds(edit)
                /\ edit.shift # Null) =>
                   segmentsKept(edit, pairOf(circuits, fromQi, fromSi))

\* C25: every step of a handler that changes circuits or barriers, and the
\* initial-state cycle, leaves animationFrame = -1 and isPlaying = FALSE.
C25_EditsResetAnimation ==
    [][(circuits' # circuits \/ barriers' # barriers
        \/ initialStateMode' # initialStateMode) =>
           (animationFrame' = -1 /\ isPlaying' = FALSE)]_vars

----------------------------------------------------------------------------
(* Properties of the player, checked under SpecPlayback.                   *)

\* C26: Play pressed while paused sets the frame to 0; while playing, with no
\* user input, each step either advances the frame by exactly 1 on the same
\* circuit and barriers, or stops the player at frame barrierCount + 1
\* without moving the frame; and a playback that has started ends, paused at
\* frame barrierCount + 1.
C26_PlaybackRuns ==
    /\ [][(~isPlaying /\ isPlaying') => animationFrame' = 0]_vars
    /\ [][isPlaying =>
            /\ animationFrame >= 0
            /\ circuits' = circuits /\ barriers' = barriers
            /\ \/ isPlaying' /\ animationFrame' = animationFrame + 1
                  /\ animationFrame' <= barrierCount + 1
               \/ ~isPlaying' /\ animationFrame' = animationFrame
                  /\ animationFrame = barrierCount + 1]_vars
    /\ isPlaying ~> (~isPlaying /\ animationFrame = barrierCount + 1)

\* A playback that has reached the last frame of a circuit with a barrier.
C26_Witness ==
    /\ isPlaying
    /\ barrierCount >= 1
    /\ animationFrame = barrierCount + 1

----------------------------------------------------------------------------
(* Properties of the wires, checked under Spec.                            *)

\* The wire a cell refers to: the control of a gate, the target of a marker.
referenceOf(gate) ==
    IF gate.gate = "CONTROL" THEN gate.targetIndex
    ELSE IF IsGate(gate) /\ hasControlIndex(gate) THEN gate.controlIndex
    ELSE Null

C29_BarriersSorted ==
    \A i \in DOMAIN barriers, j \in DOMAIN barriers :
        i < j => barriers[i] < barriers[j]

\* Two barriers with a column between them.
C29_Witness ==
    /\ Len(barriers) = 2
    /\ barriers[2] > barriers[1] + 1

\* C30: the circuit has at least one wire, and qubitVisibility has exactly
\* one entry per wire.
C30_WiresAndVisibility ==
    /\ numQubits(circuits) >= 1
    /\ DOMAIN qubitVisibility = Qubits(circuits)
    /\ \A q \in Qubits(circuits) : qubitVisibility[q] \in BOOLEAN

\* One wire with one visibility entry, a free cell and a gate.
C30_Witness ==
    /\ numQubits(circuits) = 1
    /\ DOMAIN qubitVisibility = {0}
    /\ ~IsGate(circuits[0][0])
    /\ IsGate(circuits[0][1])

====
